---- MODULE Spec2Model ----
(***************************************************************************)
(* A model of the AIVory monitor C agent: agent.c (init), and              *)
(* transport/websocket.c (bounded queue, connection callbacks, worker      *)
(* thread, send_exception).                                                *)
(*                                                                         *)
(* Threads: the host thread calling aivory_init, one producer thread per   *)
(* element of Producers calling aivory_ws_send_exception, and the worker   *)
(* thread running ws_thread_func.  libwebsockets and the peer are the      *)
(* environment: the library runs ws_callback on the worker thread inside   *)
(* the library calls the worker makes (lws_client_connect_via_info,        *)
(* lws_service, lws_context_destroy), any number of callbacks per call.    *)
(* Memory allocation is taken to succeed.                                  *)
(***************************************************************************)
EXTENDS Integers, Sequences, FiniteSets, TLC

(* ------------------------------ bounds -------------------------------- *)

\* The number of bytes of the backtrace that are hashed, scaled from 500.
FINGERPRINT_CHARS == 4

\* Bytes of the short stack traces in SpecFingerprint.
MaxTraceLen == 3

\* aivory_capture_error calls in SpecCapture.
MaxCaptures == 1

\* aivory_init and aivory_shutdown calls of the host in SpecLife and
\* SpecSigtab.
MaxHostCalls == 4

\* Records a producer submits in one run.
MaxRecords == 3

\* Heartbeat frames written on one connection.
MaxHeartbeats == 1

\* aivory_init calls of the host in SpecInit.
MaxInitCalls == 2

\* queue->max_size. config.h sets 100; the model runs it scaled down.
AIVORY_MESSAGE_QUEUE_SIZE == 2

\* The 30 seconds between heartbeats, scaled down.
HEARTBEAT_SECONDS == 2

\* The last second of the clock.
MaxTime == 5

\* The 10 of if (conn->reconnect_attempts > 10) break.
RECONNECT_LIMIT == 10

\* The most queue_push calls, and the most queue_pop calls, on one queue.
MaxPushes == 4

\* The reconnect limit of if (conn->reconnect_attempts > 10) break; the
\* code's 10, scaled down.
MaxReconnectAttempts == 1

(* ------------------------- program constants -------------------------- *)

MAX_MESSAGE_SIZE == 65536

\* libwebsockets' frame padding.
LWS_PRE == 16

\* capture_error's record buffer: snprintf(json, 65536, ...).
JSON_BUFFER_SIZE == 65536

\* build_register_message: snprintf(json, 2048, ...).
REGISTER_BUFFER_SIZE == 2048

\* A null handle, and a null char pointer.
NULL == "NULL"
NULLSTR == <<"NULL">>

Producers == {"p1"}

\* The application threads that a fatal signal can interrupt.
Threads == {"t1", "t2"}

\* The process while it runs.
Running == [kind |-> "running", sig |-> "none"]

(* ------------------------------- strings ------------------------------ *)

\* C strings are sequences of one-character strings.
URL_WS == <<"w", "s", ":", "/", "/", "h", "/">>
URL_WSS == <<"w", "s", "s", ":", "/", "/", "h", ":", "7", "/", "a">>
URL_HTTP == <<"h", "t", "t", "p", ":", "/", "/", "h", "/">>

BackendUrls == {URL_WS, URL_WSS, URL_HTTP}

\* strncmp(p, lit, n) == 0, for a literal of n characters.
strncmp_eq(p, lit) ==
    /\ Len(p) >= Len(lit)
    /\ SubSeq(p, 1, Len(lit)) = lit

\* char host[256] and char path[512] of ws_thread_func.
HOST_SIZE == 256
PATH_SIZE == 512

\* The index of the first character of s from index i on that is in
\* stops, or Len(s) + 1, the index of the terminating NUL.
FindFrom(s, i, stops) ==
    LET hits == {k \in i..Len(s) : s[k] \in stops}
    IN  IF hits = {} THEN Len(s) + 1
        ELSE CHOOSE k \in hits : \A j \in hits : k <= j

Digits == <<"0", "1", "2", "3", "4", "5", "6", "7", "8", "9">>
IsDigit(c) == \E d \in 1..10 : Digits[d] = c
DigitValue(c) == (CHOOSE d \in 1..10 : Digits[d] = c) - 1

\* atoi of a string without sign or leading blanks: the value of its
\* leading digits, 0 when there are none.
RECURSIVE atoi_from(_, _)
atoi_from(text, acc) ==
    IF text = <<>> \/ ~IsDigit(Head(text)) THEN acc
    ELSE atoi_from(Tail(text), 10 * acc + DigitValue(Head(text)))

atoi(text) == atoi_from(text, 0)

\* The first n characters of s, or all of s.
Prefix(s, n) == SubSeq(s, 1, IF Len(s) < n THEN Len(s) ELSE n)

\* parse_url that copies the path whole.
parse_url_whole_path(url) ==
    LET wss == strncmp_eq(url, <<"w", "s", "s", ":", "/", "/">>)
        ws == strncmp_eq(url, <<"w", "s", ":", "/", "/">>)
        p == IF wss THEN 7 ELSE 6
        host_end == FindFrom(url, p, {":", "/"})
        host_len == host_end - p
        has_port == host_end <= Len(url) /\ url[host_end] = ":"
        slash == IF has_port THEN FindFrom(url, host_end + 1, {"/"})
                 ELSE host_end
    IN  IF ~wss /\ ~ws THEN
           [ret |-> -1, use_ssl |-> FALSE, port |-> 80, host |-> <<>>,
            path |-> <<"/">>]
        ELSE IF host_len >= HOST_SIZE THEN
           [ret |-> -1, use_ssl |-> wss, port |-> IF wss THEN 443 ELSE 80,
            host |-> <<>>, path |-> <<"/">>]
        ELSE
           [ret |-> 0,
            use_ssl |-> wss,
            port |-> IF has_port
                     THEN atoi(SubSeq(url, host_end + 1, slash - 1))
                     ELSE IF wss THEN 443 ELSE 80,
            host |-> SubSeq(url, p, host_end - 1),
            path |-> IF slash <= Len(url)
                     THEN SubSeq(url, slash, Len(url))
                     ELSE <<"/">>]

\* parse_url: use_ssl, port and path start as false, 80 and "/"; wss://
\* sets use_ssl and port 443, ws:// nothing, any other start returns -1;
\* the host runs to the first ':' or '/' or the end and must be shorter
\* than 256; after ':' the port is atoi of what follows, up to the next
\* '/'; from '/' on the path is copied with strncpy(path, p, 512) and
\* path[511] = 0.
parse_url(url) ==
    LET wss == strncmp_eq(url, <<"w", "s", "s", ":", "/", "/">>)
        ws == strncmp_eq(url, <<"w", "s", ":", "/", "/">>)
        p == IF wss THEN 7 ELSE 6
        host_end == FindFrom(url, p, {":", "/"})
        host_len == host_end - p
        has_port == host_end <= Len(url) /\ url[host_end] = ":"
        slash == IF has_port THEN FindFrom(url, host_end + 1, {"/"})
                 ELSE host_end
    IN  IF ~wss /\ ~ws THEN
           [ret |-> -1, use_ssl |-> FALSE, port |-> 80, host |-> <<>>,
            path |-> <<"/">>]
        ELSE IF host_len >= HOST_SIZE THEN
           [ret |-> -1, use_ssl |-> wss, port |-> IF wss THEN 443 ELSE 80,
            host |-> <<>>, path |-> <<"/">>]
        ELSE
           [ret |-> 0,
            use_ssl |-> wss,
            port |-> IF has_port
                     THEN atoi(SubSeq(url, host_end + 1, slash - 1))
                     ELSE IF wss THEN 443 ELSE 80,
            host |-> SubSeq(url, p, host_end - 1),
            path |-> IF slash <= Len(url)
                     THEN Prefix(SubSeq(url, slash, Len(url)), PATH_SIZE - 1)
                     ELSE <<"/">>]

\* The worker's locals host, port, path and use_ssl before parse_url has
\* filled them.
NoTarget == [host |-> <<>>, port |-> 0, path |-> <<>>, use_ssl |-> FALSE]

(* --------------------------- configurations --------------------------- *)

\* The api_key pointer: NULL, the empty string, or a key.
ApiKeys == {NULLSTR, <<>>, <<"k">>}

\* config.sampling_rate, a double, in hundredths: below 0, 0, between 0 and
\* 1, 1.0 and above 1.
SamplingRates == {-50, 0, 50, 100, 150}

\* *config, with is_null for the pointer config itself being NULL.
aivory_config_t ==
    [is_null : {FALSE}, api_key : ApiKeys, backend_url : BackendUrls,
     capture_signals : BOOLEAN, sampling_rate : SamplingRates]

\* g_agent = {0}; also stands for a null config pointer.
ZeroConfig ==
    [is_null |-> TRUE, api_key |-> NULLSTR, backend_url |-> NULLSTR,
     capture_signals |-> FALSE, sampling_rate |-> 0]

\* What aivory_init may be handed: a null pointer or a configuration.
InitArgs == {ZeroConfig} \cup aivory_config_t

(* ------------------------------ records ------------------------------- *)

\* strlen of an encoded exception record: one that fits a frame, and the
\* longest one capture_error's buffer lets through.
RecordLens == {100, JSON_BUFFER_SIZE - 1}

\* An encoded record: its number in the submission order, which stands for
\* its bytes, and its length.
\* No record: the NULL json of an empty queue and of an idle producer.
NoRecord == [id |-> 0, len |-> 0]

\* A frame on the wire: its type, its text, and the code path that wrote
\* it ("register", "heartbeat", "inline", "drain", "writeable").
Frame(type, json, via) == [type |-> type, json |-> json, via |-> via]

RegisterFrame ==
    Frame("register", [id |-> 0, len |-> REGISTER_BUFFER_SIZE - 1], "register")
HeartbeatFrame == Frame("heartbeat", [id |-> 0, len |-> 100], "heartbeat")

\* An inbound text frame, by the substrings ws_callback looks for.
InboundFrames ==
    [registered : BOOLEAN, error : BOOLEAN,
     auth_error : BOOLEAN, invalid_api_key : BOOLEAN]

VARIABLES
    \* agent.c: g_agent
    initialized, config, agent_id,
    \* signal_handler.c: whether the agent's handlers are installed
    sig_installed,
    \* the last aivory_init call: its argument and its return value
    init_arg, init_ret,
    \* websocket.c: g_connection != NULL, and the fields of *g_connection
    conn_exists, state, authenticated, should_stop, reconnect_attempts,
    wsi, lws_ctx, queue,
    \* the worker thread's position in ws_thread_func / ws_callback
    w_pc,
    \* each producer's position in aivory_ws_send_exception and its json
    p_pc, p_json,
    \* the next record number to submit, and the number of aivory_init calls
    next_id, init_calls,
    \* the transport: the status of the connection the worker opened
    \* ("none", "pending": handshake under way, "open"), the pending
    \* lws_callback_on_writable request, and the frames written on the
    \* current connection, each with the code path that wrote it
    link, writable_req, wire,
    \* history: how far an authentication rejection got (see
    \* ws_callback_receive)
    rejected,
    \* the host thread's position in aivory_shutdown, and the history of its
    \* aivory_init and aivory_shutdown calls
    host_pc, host_log,
    \* the process's signal dispositions, signal_handler.c's g_original_*
    \* and g_agent_ref != NULL, and (history) the dispositions as they stood
    \* when aivory_init last succeeded
    disposition, g_original, g_agent_ref, pre_init,
    \* the process: running, or how it ended
    process,
    \* signal_handler.c: g_handling_signal
    g_handling_signal,
    \* the owners of g_connection->mutex and of the queue's mutex
    conn_mutex, queue_mutex,
    \* each application thread's position in aivory_ws_send_exception and
    \* the record it submits
    t_pc, t_json,
    \* each application thread's position in signal_handler, the signal it
    \* handles, the record it built and (history) what became of it
    h_pc, h_sig, h_json, h_report,
    \* the capture_error call under way, with (history) what it did
    capture,
    \* the last aivory_calculate_fingerprint call: arguments, build, result
    fp,
    \* g_agent.custom_context
    custom_context,
    \* history: the records pushed to the queue and the numbers of pushes,
    \* pops and pops that found the queue empty
    queue_log,
    \* history: the delay of the worker's last sleep before a reconnect
    delay,
    \* the clock read by time(NULL) in whole seconds, ws_thread_func's local
    \* last_heartbeat, and (history) the times at which the heartbeats of the
    \* current connection were written
    now, last_heartbeat, hb_log,
    \* ws_thread_func's locals host, port, path and use_ssl
    target

vars ==
    <<initialized, config, agent_id, sig_installed, init_arg, init_ret,
      init_calls,
      conn_exists, state, authenticated, should_stop, reconnect_attempts,
      wsi, lws_ctx, queue, w_pc, p_pc, p_json, next_id,
      link, writable_req, wire, rejected,
      host_pc, host_log, disposition, g_original, g_agent_ref, pre_init,
      process, g_handling_signal, conn_mutex, queue_mutex, t_pc, t_json,
      h_pc, h_sig, h_json, h_report, capture, fp,
      custom_context, queue_log, delay, now, last_heartbeat, hb_log,
      target>>

agent_vars == <<initialized, config, agent_id, sig_installed>>
init_vars == <<init_arg, init_ret, init_calls>>
conn_vars ==
    <<conn_exists, state, authenticated, should_stop, reconnect_attempts,
      wsi, lws_ctx>>
prod_vars == <<p_pc, p_json, next_id>>
net_vars == <<link, writable_req, wire>>
life_vars == <<host_pc, host_log>>
sigtab_vars == <<disposition, g_original, g_agent_ref, pre_init>>
handler_vars ==
    <<process, g_handling_signal, conn_mutex, queue_mutex, t_pc, t_json,
      h_pc, h_sig, h_json, h_report>>
pure_vars == <<capture, fp>>
time_vars == <<now, last_heartbeat, hb_log>>
hist_vars == <<queue_log, delay, time_vars, target>>
side_vars == <<custom_context, hist_vars>>
rest_vars == <<handler_vars, pure_vars, side_vars>>
ext_vars == <<life_vars, sigtab_vars, rest_vars>>

(* ------------------------------- queue -------------------------------- *)

\* The entries linked from head to tail are the sequence entries; head is
\* its first element and tail its last.
queue_init ==
    [entries |-> <<>>, count |-> 0, max_size |-> AIVORY_MESSAGE_QUEUE_SIZE]

\* queue_push without the eviction of the oldest entry.
queue_push_unbounded(q, json) ==
    [q EXCEPT !.entries = Append(@, json), !.count = @ + 1]

\* queue_push that, when full, gives up the newest queued entry.
queue_push_evict_newest(q, json) ==
    LET full == q.count >= q.max_size /\ q.entries # <<>>
        q1 == IF full
              THEN [q EXCEPT !.entries = SubSeq(@, 1, Len(@) - 1),
                             !.count = @ - 1]
              ELSE q
    IN  [q1 EXCEPT !.entries = Append(@, json), !.count = @ + 1]

\* queue_push, under the queue's mutex: evict the head of a full queue, then
\* link a copy of json (strdup) behind the tail.
queue_push(q, json) ==
    LET full == q.count >= q.max_size /\ q.entries # <<>>
        q1 == IF full
              THEN [q EXCEPT !.entries = Tail(@), !.count = @ - 1]
              ELSE q
    IN  [q1 EXCEPT !.entries = Append(@, json), !.count = @ + 1]

\* queue_pop that unlinks the tail, the newest entry.
queue_pop_newest(q) ==
    IF q.entries # <<>>
    THEN [json |-> q.entries[Len(q.entries)],
          q |-> [q EXCEPT !.entries = SubSeq(@, 1, Len(@) - 1),
                          !.count = @ - 1]]
    ELSE [json |-> NoRecord, q |-> q]

\* queue_pop, under the queue's mutex: unlink the head and return its json,
\* or NULL (NoRecord) from an empty queue.
queue_pop(q) ==
    IF q.entries # <<>>
    THEN [json |-> Head(q.entries),
          q |-> [q EXCEPT !.entries = Tail(@), !.count = @ - 1]]
    ELSE [json |-> NoRecord, q |-> q]

queue_has_messages(q) == q.count > 0

\* Nothing pushed or popped yet.
queue_log_init ==
    [pushed |-> <<>>, pops |-> 0, empty_pops |-> 0, evictions |-> 0]


(* --------------------------- ws_send_message --------------------------- *)

\* ws_send_message's return value for json: -1 without a connection object
\* or a handle, and for a json longer than MAX_MESSAGE_SIZE - LWS_PRE; else
\* lws_write's result, which is taken to succeed.
ws_send_message(json) ==
    IF ~conn_exists \/ wsi = NULL THEN -1
    ELSE IF json.len > MAX_MESSAGE_SIZE - LWS_PRE THEN -1
    ELSE 0

\* lws_write reaches the peer when the handle it is given is that of the
\* open connection; a handle the library has destroyed carries nothing.
Written(frame) == ws_send_message(frame.json) = 0 /\ link = "open"

\* The wire after ws_send_message(frame.json).
SendEffects(frame) ==
    wire' = IF Written(frame) THEN Append(wire, frame) ELSE wire

(* ------------------------------- agent.c ------------------------------- *)

\* The key check without its test for the empty string.
config_missing_no_empty_test(cfg) ==
    cfg.is_null \/ cfg.api_key = NULLSTR

\* aivory_init's check of its argument:
\* !config || !config->api_key || config->api_key[0] == '\0'
config_missing(cfg) ==
    cfg.is_null \/ cfg.api_key = NULLSTR \/ cfg.api_key = <<>>

\* aivory_ws_connect: nothing when g_connection is set; else the connection
\* object is allocated zeroed, its queue initialised and the worker thread
\* started. When pthread_create fails the object is freed again.
aivory_ws_connect(thread_ok) ==
    IF conn_exists \/ ~thread_ok
    THEN UNCHANGED <<conn_vars, queue, w_pc>>
    ELSE /\ conn_exists' = TRUE
         /\ state' = "DISCONNECTED"
         /\ should_stop' = FALSE
         /\ authenticated' = FALSE
         /\ reconnect_attempts' = 0
         /\ wsi' = NULL
         /\ lws_ctx' = NULL
         /\ queue' = queue_init
         /\ w_pc' = "parse_url"

\* The fatal signals the agent handles.
Signals == {"SIGSEGV", "SIGABRT", "SIGFPE", "SIGBUS", "SIGILL"}

\* The signals for which the host calls sigaction itself.
HostSignals == {"SIGSEGV", "SIGABRT"}

\* The signals that the threads of SpecSig raise.
Faults == {"SIGSEGV", "SIGBUS"}

\* What a signal's sa_handler can be: the default, ignore, a handler of
\* the host, or the agent's signal_handler.
Dispositions == {"SIG_DFL", "SIG_IGN", "host", "agent"}

\* aivory_install_signal_handlers: g_agent_ref is set, and for each signal
\* sigaction installs signal_handler and saves the old action.
aivory_install_signal_handlers ==
    /\ g_agent_ref' = TRUE
    /\ g_original' = disposition
    /\ disposition' = [sig \in Signals |-> "agent"]

\* An uninstall that resets each signal to the default action.
aivory_uninstall_resets_to_default ==
    /\ disposition' = [sig \in Signals |-> "SIG_DFL"]
    /\ g_agent_ref' = FALSE
    /\ UNCHANGED g_original

\* aivory_uninstall_signal_handlers: for each signal sigaction installs the
\* saved action, whatever it holds; g_agent_ref is cleared.
aivory_uninstall_signal_handlers ==
    /\ disposition' = g_original
    /\ g_agent_ref' = FALSE
    /\ UNCHANGED g_original

\* aivory_init(cfg), under g_agent_mutex. Its result is 0 also when
\* aivory_ws_connect fails ("Continue anyway").
aivory_init(cfg, thread_ok) ==
    /\ init_arg' = cfg
    /\ init_calls' = init_calls + 1
    /\ IF initialized \/ config_missing(cfg)
       THEN /\ init_ret' = -1
            /\ UNCHANGED <<agent_vars, conn_vars, queue, w_pc, sigtab_vars>>
       ELSE /\ config' = cfg
            /\ agent_id' = TRUE
            /\ sig_installed' = (sig_installed \/ cfg.capture_signals)
            /\ pre_init' = disposition
            /\ IF cfg.capture_signals
               THEN aivory_install_signal_handlers
               ELSE UNCHANGED <<disposition, g_original, g_agent_ref>>
            /\ aivory_ws_connect(thread_ok)
            /\ initialized' = TRUE
            /\ init_ret' = 0
    /\ UNCHANGED <<prod_vars, net_vars, rejected>>

\* The configurations the host of Spec passes: no key, the plain and the
\* malformed URL with the defaults capture_signals = true and
\* sampling_rate = 1.0.
HostArgs ==
    {cfg \in InitArgs :
        \/ cfg.is_null
        \/ /\ cfg.capture_signals
           /\ cfg.sampling_rate = 100
           /\ cfg.backend_url \in {URL_WS, URL_HTTP}
           /\ cfg.api_key # NULLSTR}

\* The host calls aivory_init until it succeeds.
HostInit ==
    /\ ~initialized
    /\ init_calls < MaxInitCalls
    /\ \E cfg \in HostArgs, thread_ok \in BOOLEAN : aivory_init(cfg, thread_ok)
    /\ UNCHANGED <<life_vars, rest_vars>>

\* The host calls aivory_init at any time, also on an initialized agent.
HostInitAny ==
    /\ init_calls < MaxInitCalls
    /\ \E cfg \in InitArgs, thread_ok \in BOOLEAN : aivory_init(cfg, thread_ok)
    /\ UNCHANGED <<life_vars, rest_vars>>

(* ---------------------------- aivory_shutdown -------------------------- *)

\* The configurations the host of SpecLife passes: a key or none, the plain
\* and the malformed URL, capture_signals on or off.
LifeArgs ==
    {cfg \in aivory_config_t :
        /\ cfg.backend_url \in {URL_WS, URL_HTTP}
        /\ cfg.sampling_rate = 100
        /\ cfg.api_key # NULLSTR}

\* The host calls aivory_init, also on an initialized agent.
HostInitLife ==
    /\ host_pc = "idle"
    /\ init_calls < MaxInitCalls
    /\ Len(host_log) < MaxHostCalls
    /\ \E cfg \in LifeArgs, thread_ok \in BOOLEAN : aivory_init(cfg, thread_ok)
    /\ host_log' = Append(host_log, IF init_ret' = 0 THEN "init" ELSE "init_failed")
    /\ UNCHANGED <<host_pc, rest_vars>>

\* The host installs a handler of its own for one signal, or resets it.
HostSigaction ==
    /\ process.kind = "running"
    /\ host_pc = "idle"
    /\ \E sig \in HostSignals, d \in {"SIG_DFL", "SIG_IGN", "host"} :
          /\ disposition[sig] # d
          /\ disposition' = [disposition EXCEPT ![sig] = d]
    /\ UNCHANGED <<agent_vars, init_vars, conn_vars, queue, w_pc, prod_vars,
                   net_vars, rejected, life_vars, g_original, g_agent_ref,
                   pre_init, rest_vars>>

\* aivory_shutdown's end: the identity strings are freed and g_agent is
\* zeroed (memset).
shutdown_memset ==
    /\ initialized' = FALSE
    /\ config' = ZeroConfig
    /\ agent_id' = FALSE
    /\ custom_context' = NULLSTR

\* A disconnect that frees the connection object and keeps g_connection.
ws_disconnect_keeps_pointer ==
    /\ w_pc' = "none"
    /\ queue' = queue_init
    /\ UNCHANGED conn_vars

\* aivory_ws_disconnect after the join: the queue is destroyed, the
\* connection object freed and g_connection = NULL.
ws_disconnect_free ==
    /\ conn_exists' = FALSE
    /\ state' = "DISCONNECTED"
    /\ authenticated' = FALSE
    /\ should_stop' = FALSE
    /\ reconnect_attempts' = 0
    /\ wsi' = NULL
    /\ lws_ctx' = NULL
    /\ queue' = queue_init
    /\ w_pc' = "none"

\* aivory_shutdown, under g_agent_mutex, up to pthread_join: nothing on an
\* agent that is not initialized; else the handlers are uninstalled and,
\* when there is a connection object, should_stop is set and the worker
\* joined; without one the call finishes at once.
HostShutdown ==
    /\ process.kind = "running"
    /\ host_pc = "idle"
    /\ Len(host_log) < MaxHostCalls
    /\ IF ~initialized
       THEN /\ host_log' = Append(host_log, "shutdown_noop")
            /\ UNCHANGED <<agent_vars, conn_vars, queue, w_pc, host_pc,
                           disposition, g_original, g_agent_ref,
                           custom_context>>
       ELSE /\ aivory_uninstall_signal_handlers
            /\ sig_installed' = FALSE
            /\ IF conn_exists
               THEN /\ should_stop' = TRUE
                    /\ host_pc' = "join"
                    /\ UNCHANGED <<initialized, config, agent_id, conn_exists,
                                   state, authenticated, reconnect_attempts,
                                   wsi, lws_ctx, queue, w_pc, host_log,
                                   custom_context>>
               ELSE /\ shutdown_memset
                    /\ host_log' = Append(host_log, "shutdown")
                    /\ UNCHANGED <<conn_vars, queue, w_pc, host_pc>>
    /\ UNCHANGED <<init_vars, prod_vars, net_vars, rejected, pre_init,
                   handler_vars, pure_vars, hist_vars>>

\* pthread_join returns once the worker thread has returned; the rest of
\* aivory_ws_disconnect and of aivory_shutdown follows.
HostShutdown_join ==
    /\ process.kind = "running"
    /\ host_pc = "join"
    /\ w_pc = "returned"
    /\ ws_disconnect_free
    /\ shutdown_memset
    /\ host_pc' = "idle"
    /\ host_log' = Append(host_log, "shutdown")
    /\ UNCHANGED <<sig_installed, init_vars, prod_vars, net_vars, rejected,
                   sigtab_vars, handler_vars, pure_vars, hist_vars>>

(* ----------------------- aivory_ws_send_exception ---------------------- *)

\* The producer enters send_exception with a new record and, under the
\* connection's mutex, takes its snapshot of state and authenticated; the
\* snapshot decides the branch it goes on to.
SendException_snapshot(p) ==
    /\ p_pc[p] = "idle"
    /\ conn_exists
    /\ next_id <= MaxRecords
    /\ \E len \in RecordLens :
          p_json' = [p_json EXCEPT ![p] = [id |-> next_id, len |-> len]]
    /\ next_id' = next_id + 1
    /\ p_pc' = [p_pc EXCEPT ![p] =
                   IF state = "AUTHENTICATED" /\ authenticated
                   THEN "send" ELSE "push"]
    /\ UNCHANGED <<agent_vars, init_vars, conn_vars, queue, w_pc, net_vars, rejected>>
    /\ UNCHANGED ext_vars

\* "Send directly": ws_send_message(json), then a writable callback is
\* requested when the handle is set.
SendException_direct(p) ==
    /\ p_pc[p] = "send"
    /\ SendEffects(Frame("exception", p_json[p], "inline"))
    /\ writable_req' = (writable_req \/ wsi # NULL)
    /\ p_pc' = [p_pc EXCEPT ![p] = "idle"]
    /\ p_json' = [p_json EXCEPT ![p] = NoRecord]
    /\ UNCHANGED <<agent_vars, init_vars, conn_vars, queue, w_pc, next_id,
                   link, rejected>>
    /\ UNCHANGED ext_vars

\* "Queue for later": queue_push(&g_connection->queue, json).
SendException_queue(p) ==
    /\ p_pc[p] = "push"
    /\ queue' = queue_push(queue, p_json[p])
    /\ p_pc' = [p_pc EXCEPT ![p] = "idle"]
    /\ p_json' = [p_json EXCEPT ![p] = NoRecord]
    /\ UNCHANGED <<agent_vars, init_vars, conn_vars, w_pc, next_id,
                   net_vars, rejected>>
    /\ UNCHANGED ext_vars

(* ------------------------------ ws_callback ---------------------------- *)

\* The callback without authenticated = false.
ws_callback_disconnect_keeps_authenticated ==
    /\ state' = "DISCONNECTED"
    /\ wsi' = NULL
    /\ UNCHANGED authenticated

\* LWS_CALLBACK_CLIENT_CONNECTION_ERROR and LWS_CALLBACK_CLIENT_CLOSED,
\* under the connection's mutex.
ws_callback_disconnect ==
    /\ state' = "DISCONNECTED"
    /\ wsi' = NULL
    /\ authenticated' = FALSE

\* The ESTABLISHED callback without g_connection->wsi = wsi.
ws_callback_established_without_wsi ==
    /\ state' = "CONNECTED"
    /\ UNCHANGED wsi

\* LWS_CALLBACK_CLIENT_ESTABLISHED, first half, under the connection's mutex.
ws_callback_established ==
    /\ state' = "CONNECTED"
    /\ wsi' = "wsi"

\* The RECEIVE callback's reading of an inbound frame: "registered" is
\* looked for first, then "error" with "auth_error" or "invalid_api_key".
frame_class(msg) ==
    IF msg.registered THEN "registered"
    ELSE IF msg.error /\ (msg.auth_error \/ msg.invalid_api_key) THEN "auth_failed"
    ELSE "other"

\* A frame that contains "error" together with "auth_error" or
\* "invalid_api_key".
IsRejection(msg) == msg.error /\ (msg.auth_error \/ msg.invalid_api_key)

Heartbeats(w) == Cardinality({i \in 1..Len(w) : w[i].type = "heartbeat"})

(* ----------------------------- ws_thread_func -------------------------- *)

\* parse_url(agent->config.backend_url, ...) != 0: "Invalid backend URL",
\* and the thread returns.
ws_thread_parse_url ==
    /\ w_pc = "parse_url"
    /\ LET r == parse_url(config.backend_url)
       IN  /\ w_pc' = IF r.ret # 0 THEN "returned" ELSE "loop"
           /\ target' = IF r.ret # 0 THEN NoTarget
                         ELSE [host |-> r.host, port |-> r.port,
                               path |-> r.path, use_ssl |-> r.use_ssl]
    /\ UNCHANGED <<agent_vars, init_vars, conn_vars, queue, prod_vars,
                   net_vars, rejected>>
    /\ UNCHANGED <<life_vars, sigtab_vars, handler_vars, pure_vars,
                   custom_context, queue_log, delay, time_vars>>

\* What one pass through lws_create_context and
\* lws_client_connect_via_info can come to: no context; no handle; a handle
\* whose handshake is still under way when the call returns; a handle
\* whose handshake the library completed, running the ESTABLISHED callback,
\* before the call returns.
ConnectOutcomes == {"no_context", "no_handle", "pending", "established"}

\* The top of the worker's while loop, up to the service loop, but for
\* time_t last_heartbeat = time(NULL).
ws_thread_loop_connect ==
    /\ w_pc = "loop"
    /\ IF should_stop THEN
          /\ w_pc' = "returned"
          /\ UNCHANGED <<conn_vars, net_vars>>
       ELSE IF state # "DISCONNECTED" THEN
          /\ w_pc' = "reconnect"
          /\ UNCHANGED <<conn_vars, net_vars>>
       ELSE \E outcome \in ConnectOutcomes :
          CASE outcome = "no_context" ->
                 /\ w_pc' = "reconnect"
                 /\ UNCHANGED <<conn_vars, net_vars>>
            [] outcome = "no_handle" ->
                 \* lws_context_destroy(conn->lws_ctx); conn->lws_ctx = NULL
                 /\ w_pc' = "reconnect"
                 /\ UNCHANGED <<conn_vars, net_vars>>
            [] outcome = "pending" ->
                 /\ w_pc' = "service_loop"
                 /\ lws_ctx' = "ctx"
                 /\ link' = "pending"
                 /\ UNCHANGED <<conn_exists, state, authenticated, should_stop,
                                reconnect_attempts, wsi, writable_req, wire>>
            [] outcome = "established" ->
                 /\ w_pc' = "cb_register"
                 /\ lws_ctx' = "ctx"
                 /\ link' = "open"
                 /\ wire' = <<>>
                 /\ writable_req' = FALSE
                 /\ ws_callback_established
                 /\ UNCHANGED <<conn_exists, authenticated, should_stop,
                                reconnect_attempts>>
    /\ UNCHANGED <<agent_vars, init_vars, queue, prod_vars,
                   rejected>>

\* The top of the worker's while loop, the clock left out.
ws_thread_loop == ws_thread_loop_connect /\ UNCHANGED ext_vars

\* The top of the worker's while loop with the clock: a pass that gets a
\* handle goes on to time_t last_heartbeat = time(NULL) before the
\* service loop.
ws_thread_loop_timed ==
    /\ ws_thread_loop_connect
    /\ IF w_pc' \in {"service_loop", "cb_register"}
       THEN /\ last_heartbeat' = now
            /\ hb_log' = <<>>
       ELSE UNCHANGED <<last_heartbeat, hb_log>>
    /\ UNCHANGED <<now, life_vars, sigtab_vars, handler_vars, pure_vars,
                   custom_context, target, queue_log, delay>>

\* LWS_CALLBACK_CLIENT_ESTABLISHED, second half: the register frame.
ws_callback_register ==
    /\ w_pc = "cb_register"
    /\ SendEffects(RegisterFrame)
    /\ w_pc' = "service_loop"
    /\ UNCHANGED <<agent_vars, init_vars, conn_vars, queue, prod_vars,
                   link, writable_req,
                   rejected>>
    /\ UNCHANGED ext_vars

\* The service loop's condition without !conn->should_stop.
ws_thread_service_ignores_stop ==
    /\ w_pc = "service_loop"
    /\ state # "DISCONNECTED"
    /\ w_pc' = "in_service"
    /\ UNCHANGED <<agent_vars, init_vars, conn_vars, queue, prod_vars,
                   net_vars, rejected>>
    /\ UNCHANGED ext_vars

\* while (!conn->should_stop && conn->state != DISCONNECTED): the worker
\* goes into lws_service.
ws_thread_service ==
    /\ w_pc = "service_loop"
    /\ ~should_stop /\ state # "DISCONNECTED"
    /\ w_pc' = "in_service"
    /\ UNCHANGED <<agent_vars, init_vars, conn_vars, queue, prod_vars,
                   net_vars, rejected>>
    /\ UNCHANGED ext_vars

\* The service loop's condition fails: "Cleanup". lws_context_destroy ends
\* the connection; for a connection still open the library may run the
\* CLOSED callback on the way, and for one whose handshake is under way
\* the CONNECTION_ERROR callback (closed_cb).
ws_thread_cleanup ==
    /\ w_pc = "service_loop"
    /\ should_stop \/ state = "DISCONNECTED"
    /\ \E closed_cb \in BOOLEAN :
          IF closed_cb /\ link # "none"
          THEN ws_callback_disconnect
          ELSE UNCHANGED <<state, wsi, authenticated>>
    /\ lws_ctx' = NULL
    /\ link' = "none"
    /\ writable_req' = FALSE
    /\ wire' = <<>>
    /\ w_pc' = "reconnect"
    /\ UNCHANGED <<agent_vars, init_vars, conn_exists, should_stop,
                   reconnect_attempts, queue, prod_vars, rejected>>
    /\ UNCHANGED ext_vars

\* The delay without the cap: 1 << attempts.
reconnect_delay_uncapped(attempts) == 2 ^ attempts

\* int delay = 1 << (conn->reconnect_attempts > 6 ? 6
\*                                                : conn->reconnect_attempts);
\* the shift count is at most 6, far from the width of int.
reconnect_delay(attempts) == 2 ^ (IF attempts > 6 THEN 6 ELSE attempts)

\* The reconnect label: stop, count the attempt, give up when the count
\* exceeds limit, else sleep(delay) and go round.
ws_thread_reconnect_limit(limit) ==
    /\ w_pc = "reconnect"
    /\ IF should_stop THEN
          /\ w_pc' = "returned"
          /\ UNCHANGED <<reconnect_attempts, delay>>
       ELSE
          /\ reconnect_attempts' = reconnect_attempts + 1
          /\ IF reconnect_attempts' > limit
             THEN /\ w_pc' = "returned"
                  /\ UNCHANGED delay
             ELSE /\ w_pc' = "loop"
                  /\ delay' = reconnect_delay(reconnect_attempts')
    /\ UNCHANGED <<agent_vars, init_vars, conn_exists, state, authenticated,
                   should_stop, wsi, lws_ctx, queue, prod_vars, net_vars, rejected>>
    /\ UNCHANGED <<life_vars, sigtab_vars, handler_vars, pure_vars,
                   custom_context, target, queue_log, time_vars>>

\* The reconnect label with a limit one higher.
ws_thread_reconnect_one_more ==
    ws_thread_reconnect_limit(MaxReconnectAttempts + 1)

\* The reconnect label with the limit scaled down.
ws_thread_reconnect == ws_thread_reconnect_limit(MaxReconnectAttempts)

\* The reconnect label with the limit of the code.
ws_thread_reconnect_10 == ws_thread_reconnect_limit(RECONNECT_LIMIT)

(* ------------------- callbacks run inside lws_service ------------------ *)

\* LWS_CALLBACK_CLIENT_RECEIVE with a non-empty frame msg. On "registered"
\* the state is set under the mutex and the drain loop follows; on an
\* authentication error should_stop is set.
\* rejected records how far a rejection got: "clean" when a rejection frame without
\* "registered" arrives before authentication, "mixed" when it also contains
\* "registered", "overridden" when a "registered" frame follows a clean
\* rejection inside the same lws_service call.
ws_callback_receive ==
    /\ w_pc = "in_service"
    /\ link = "open"
    /\ \E msg \in InboundFrames :
          /\ CASE frame_class(msg) = "registered" ->
                    /\ authenticated' = TRUE
                    /\ state' = "AUTHENTICATED"
                    /\ w_pc' = "cb_drain"
                    /\ UNCHANGED should_stop
               [] frame_class(msg) = "auth_failed" ->
                    /\ should_stop' = TRUE
                    /\ UNCHANGED <<authenticated, state, w_pc>>
               [] OTHER ->
                    UNCHANGED <<authenticated, state, w_pc, should_stop>>
          /\ rejected' =
                IF rejected \in {"no", "mixed"} /\ IsRejection(msg)
                   /\ state # "AUTHENTICATED"
                THEN (IF msg.registered THEN "mixed" ELSE "clean")
                ELSE IF rejected = "clean" /\ msg.registered THEN "overridden"
                ELSE rejected
    /\ UNCHANGED <<agent_vars, init_vars, conn_exists, reconnect_attempts,
                   wsi, lws_ctx, queue, prod_vars, net_vars>>
    /\ UNCHANGED ext_vars

\* "Send queued messages": one turn of
\* while ((queued = queue_pop(&queue)) != NULL) ws_send_message(queued).
ws_callback_drain ==
    /\ w_pc = "cb_drain"
    /\ LET r == queue_pop(queue) IN
          /\ queue' = r.q
          /\ IF r.json # NoRecord
             THEN /\ SendEffects(Frame("exception", r.json, "drain"))
                  /\ w_pc' = "cb_drain"
             ELSE /\ UNCHANGED wire
                  /\ w_pc' = "in_service"
    /\ UNCHANGED <<agent_vars, init_vars, conn_vars, prod_vars, link,
                   writable_req,
                   rejected>>
    /\ UNCHANGED ext_vars

\* LWS_CALLBACK_CLIENT_WRITEABLE, which the library runs after
\* lws_callback_on_writable: one entry is popped and sent when
\* authenticated, and another callback is requested when more are queued.
ws_callback_writeable ==
    /\ w_pc = "in_service"
    /\ link = "open"
    /\ writable_req
    /\ IF authenticated
       THEN LET r == queue_pop(queue) IN
               /\ queue' = r.q
               /\ IF r.json # NoRecord
                  THEN /\ SendEffects(Frame("exception", r.json, "writeable"))
                       /\ writable_req' = queue_has_messages(r.q)
                  ELSE /\ UNCHANGED wire
                       /\ writable_req' = FALSE
       ELSE /\ writable_req' = FALSE
            /\ UNCHANGED <<queue, wire>>
    /\ UNCHANGED <<agent_vars, init_vars, conn_vars, w_pc, prod_vars, link, rejected>>
    /\ UNCHANGED ext_vars

\* LWS_CALLBACK_CLIENT_CLOSED: the peer or the network ended the connection.
ws_callback_closed ==
    /\ w_pc = "in_service"
    /\ link = "open"
    /\ ws_callback_disconnect
    /\ link' = "none"
    /\ writable_req' = FALSE
    /\ UNCHANGED <<agent_vars, init_vars, conn_exists, should_stop,
                   reconnect_attempts, lws_ctx, queue, w_pc, prod_vars, wire, rejected>>
    /\ UNCHANGED ext_vars

\* lws_service returns and the heartbeat is built and sent: "Send
\* heartbeat every 30 seconds".
ws_thread_heartbeat_send ==
    /\ w_pc = "in_service"
    /\ authenticated
    /\ SendEffects(HeartbeatFrame)
    /\ w_pc' = "service_loop"
    /\ rejected' = IF rejected = "clean" THEN "final" ELSE rejected
    /\ UNCHANGED <<agent_vars, init_vars, conn_vars, queue, prod_vars, link,
                   writable_req>>

\* lws_service returns and the heartbeat is not sent.
ws_thread_service_back ==
    /\ w_pc = "in_service"
    /\ w_pc' = "service_loop"
    /\ rejected' = IF rejected = "clean" THEN "final" ELSE rejected
    /\ UNCHANGED <<agent_vars, init_vars, conn_vars, queue, prod_vars,
                   net_vars>>

\* lws_service returns and 30 seconds have passed since the last
\* heartbeat, the clock left out.
ws_thread_heartbeat ==
    /\ Heartbeats(wire) < MaxHeartbeats
    /\ ws_thread_heartbeat_send
    /\ UNCHANGED ext_vars

\* lws_service returns and no heartbeat is due, the clock left out.
ws_thread_service_return == ws_thread_service_back /\ UNCHANGED ext_vars

\* The heartbeat test without its time part.
heartbeat_due_always(t, last) == authenticated

\* if (conn->authenticated && (now - last_heartbeat) >= 30)
heartbeat_due(t, last) == authenticated /\ (t - last) >= HEARTBEAT_SECONDS

\* lws_service returns, now = time(NULL), and the heartbeat is due: it is
\* sent and last_heartbeat = now. The history notes the time of a
\* heartbeat that was written.
ws_thread_heartbeat_timed ==
    /\ heartbeat_due(now, last_heartbeat)
    /\ ws_thread_heartbeat_send
    /\ last_heartbeat' = now
    /\ hb_log' = IF Written(HeartbeatFrame) THEN Append(hb_log, now)
                 ELSE hb_log
    /\ UNCHANGED <<now, life_vars, sigtab_vars, handler_vars, pure_vars,
                   custom_context, target, queue_log, delay>>

\* lws_service returns, now = time(NULL), and no heartbeat is due.
ws_thread_service_return_timed ==
    /\ ~heartbeat_due(now, last_heartbeat)
    /\ ws_thread_service_back
    /\ UNCHANGED <<time_vars, life_vars, sigtab_vars, handler_vars,
                   pure_vars, custom_context, target, queue_log, delay>>

\* A second passes while the worker is inside lws_service or has slept
\* before a reconnect.
Tick ==
    /\ w_pc \in {"in_service", "loop"}
    /\ now < MaxTime
    /\ now' = now + 1
    /\ UNCHANGED <<agent_vars, init_vars, conn_vars, queue, w_pc, prod_vars,
                   net_vars, rejected, life_vars, sigtab_vars, handler_vars,
                   pure_vars, custom_context, target, queue_log, delay,
                   last_heartbeat, hb_log>>

(* ----------------------------- signal_handler -------------------------- *)

\* How the process can end: _exit(128 + sig) of the reentry guard, the
\* default action of sig, and exit() inside a handler of the host.
Exited128(sig) == [kind |-> "exited_128_plus", sig |-> sig]
Signaled(sig) == [kind |-> "signaled", sig |-> sig]
ExitedByHost(sig) == [kind |-> "exited_by_host", sig |-> sig]

\* What a handler of the host does with a signal: end the process through
\* the default action, call exit, or return to the interrupted code.
HostHandlerOutcomes == {"default", "exit", "return"}

\* The process after sig is delivered to a handler of the host.
host_handler(sig, outcome) ==
    CASE outcome = "default" -> Signaled(sig)
      [] outcome = "exit" -> ExitedByHost(sig)
      [] outcome = "return" -> Running

\* char json[8192] of signal_handler.
SIGNAL_JSON_SIZE == 8192

\* What snprintf returns for the record of a fatal signal: a short record,
\* and one that a long backtrace (up to MAX_JSON_SIZE = 32768 bytes) makes
\* as long as the buffer.
SignalRecordLens == {1000, SIGNAL_JSON_SIZE}

\* No thread is inside the handler or inside aivory_ws_send_exception.
Quiet == \A t \in Threads : h_pc[t] = "none" /\ t_pc[t] = "run"

\* The kernel delivers a fatal signal to thread t, wherever t is. The
\* agent's handler is installed with SA_RESETHAND, so on entry the signal's
\* disposition becomes SIG_DFL; the signal stays blocked in t while the
\* handler runs, so t's handler is not entered a second time.
Deliver(t) ==
    /\ process.kind = "running"
    /\ h_pc[t] = "none"
    /\ \E sig \in Faults :
          CASE disposition[sig] = "agent" ->
                 /\ h_pc' = [h_pc EXCEPT ![t] = "guard"]
                 /\ h_sig' = [h_sig EXCEPT ![t] = sig]
                 /\ disposition' = [disposition EXCEPT ![sig] = "SIG_DFL"]
                 /\ UNCHANGED process
            [] disposition[sig] = "host" ->
                 /\ \E outcome \in HostHandlerOutcomes :
                       process' = host_handler(sig, outcome)
                 /\ UNCHANGED <<h_pc, h_sig, disposition>>
            [] OTHER ->
                 /\ process' = Signaled(sig)
                 /\ UNCHANGED <<h_pc, h_sig, disposition>>
    /\ UNCHANGED <<pure_vars, side_vars>>
    /\ UNCHANGED <<agent_vars, init_vars, conn_vars, queue, w_pc, prod_vars,
                   net_vars, rejected, life_vars, g_original, g_agent_ref,
                   pre_init, g_handling_signal, conn_mutex, queue_mutex,
                   t_pc, t_json, h_json, h_report>>

\* if (g_handling_signal) _exit(128 + sig); the read of the flag.
Handler_guard(t) ==
    /\ process.kind = "running"
    /\ h_pc[t] = "guard"
    /\ IF g_handling_signal # 0
       THEN /\ process' = Exited128(h_sig[t])
            /\ UNCHANGED h_pc
       ELSE /\ h_pc' = [h_pc EXCEPT ![t] = "set"]
            /\ UNCHANGED process
    /\ UNCHANGED <<pure_vars, side_vars>>
    /\ UNCHANGED <<agent_vars, init_vars, conn_vars, queue, w_pc, prod_vars,
                   net_vars, rejected, life_vars, sigtab_vars,
                   g_handling_signal, conn_mutex, queue_mutex, t_pc, t_json,
                   h_sig, h_json, h_report>>

\* g_handling_signal = 1; the write of the flag.
Handler_set(t) ==
    /\ process.kind = "running"
    /\ h_pc[t] = "set"
    /\ g_handling_signal' = 1
    /\ h_pc' = [h_pc EXCEPT ![t] = "report"]
    /\ UNCHANGED <<pure_vars, side_vars>>
    /\ UNCHANGED <<agent_vars, init_vars, conn_vars, queue, w_pc, prod_vars,
                   net_vars, rejected, life_vars, sigtab_vars, process,
                   conn_mutex, queue_mutex, t_pc, t_json, h_sig, h_json,
                   h_report>>

\* if (g_agent_ref && g_agent_ref->initialized): the backtrace, the
\* fingerprint and snprintf into json; the record goes on to
\* aivory_ws_send_exception when 0 < len < sizeof(json).
Handler_report(t) ==
    /\ process.kind = "running"
    /\ h_pc[t] = "report"
    /\ IF g_agent_ref /\ initialized
       THEN \E len \in SignalRecordLens :
               IF len > 0 /\ len < SIGNAL_JSON_SIZE
               THEN /\ h_json' = [h_json EXCEPT ![t] = [id |-> 0, len |-> len]]
                    /\ h_report' = [h_report EXCEPT ![t] = "handed"]
                    /\ h_pc' = [h_pc EXCEPT ![t] =
                                   IF conn_exists THEN "send_lock" ELSE "restore"]
               ELSE /\ h_report' = [h_report EXCEPT ![t] = "dropped"]
                    /\ h_pc' = [h_pc EXCEPT ![t] = "restore"]
                    /\ UNCHANGED h_json
       ELSE /\ h_report' = [h_report EXCEPT ![t] = "skipped"]
            /\ h_pc' = [h_pc EXCEPT ![t] = "restore"]
            /\ UNCHANGED h_json
    /\ UNCHANGED <<pure_vars, side_vars>>
    /\ UNCHANGED <<agent_vars, init_vars, conn_vars, queue, w_pc, prod_vars,
                   net_vars, rejected, life_vars, sigtab_vars, process,
                   g_handling_signal, conn_mutex, queue_mutex, t_pc, t_json,
                   h_sig>>

\* aivory_ws_send_exception called by the handler, first part:
\* pthread_mutex_lock(&g_connection->mutex), the snapshot, the unlock. The
\* mutex is not recursive: the lock waits while any thread, the
\* interrupted one included, holds it.
Handler_send_lock(t) ==
    /\ process.kind = "running"
    /\ h_pc[t] = "send_lock"
    /\ conn_mutex = "free"
    /\ h_pc' = [h_pc EXCEPT ![t] =
                   IF state = "AUTHENTICATED" /\ authenticated
                   THEN "send" ELSE "push"]
    /\ UNCHANGED <<pure_vars, side_vars>>
    /\ UNCHANGED <<agent_vars, init_vars, conn_vars, queue, w_pc, prod_vars,
                   net_vars, rejected, life_vars, sigtab_vars, process,
                   g_handling_signal, conn_mutex, queue_mutex, t_pc, t_json,
                   h_sig, h_json, h_report>>

\* aivory_ws_send_exception called by the handler, second part: the direct
\* write, or queue_push under the queue's mutex; then usleep(100000).
Handler_send(t) ==
    /\ process.kind = "running"
    /\ h_pc[t] \in {"send", "push"}
    /\ IF h_pc[t] = "send"
       THEN /\ SendEffects(Frame("exception", h_json[t], "inline"))
            /\ writable_req' = (writable_req \/ wsi # NULL)
            /\ UNCHANGED queue
       ELSE /\ queue_mutex = "free"
            /\ queue' = queue_push(queue, h_json[t])
            /\ UNCHANGED <<writable_req, wire>>
    /\ h_pc' = [h_pc EXCEPT ![t] = "restore"]
    /\ UNCHANGED <<pure_vars, side_vars>>
    /\ UNCHANGED <<agent_vars, init_vars, conn_vars, w_pc, prod_vars, link,
                   rejected, life_vars, sigtab_vars, process,
                   g_handling_signal, conn_mutex, queue_mutex, t_pc, t_json,
                   h_sig, h_json, h_report>>

\* The disposition the handler installs for sig before it re-raises: the
\* saved one when that is a handler function, else SIG_DFL.
restore_always_default(sig) == "SIG_DFL"

restore_disposition(sig) ==
    IF g_original[sig] # "SIG_DFL" /\ g_original[sig] # "SIG_IGN"
    THEN g_original[sig]
    ELSE "SIG_DFL"

\* "Restore original handler and re-raise": sigaction or signal, then
\* raise(sig), which leaves sig pending because it is blocked in the
\* handler.
Handler_restore(t) ==
    /\ process.kind = "running"
    /\ h_pc[t] = "restore"
    /\ disposition' = [disposition EXCEPT ![h_sig[t]] = restore_disposition(h_sig[t])]
    /\ h_pc' = [h_pc EXCEPT ![t] = "raised"]
    /\ UNCHANGED <<pure_vars, side_vars>>
    /\ UNCHANGED <<agent_vars, init_vars, conn_vars, queue, w_pc, prod_vars,
                   net_vars, rejected, life_vars, g_original, g_agent_ref,
                   pre_init, process, g_handling_signal, conn_mutex,
                   queue_mutex, t_pc, t_json, h_sig, h_json, h_report>>

\* The handler returns and the pending signal is delivered with the
\* disposition just installed: the default action ends the process with
\* sig; a handler of the host runs, and when it returns the thread goes on
\* with g_handling_signal still 1.
Handler_return(t) ==
    /\ process.kind = "running"
    /\ h_pc[t] = "raised"
    /\ IF disposition[h_sig[t]] = "host"
       THEN \E outcome \in HostHandlerOutcomes :
               process' = host_handler(h_sig[t], outcome)
       ELSE process' = Signaled(h_sig[t])
    /\ h_pc' = [h_pc EXCEPT ![t] = "none"]
    /\ UNCHANGED <<pure_vars, side_vars>>
    /\ UNCHANGED <<agent_vars, init_vars, conn_vars, queue, w_pc, prod_vars,
                   net_vars, rejected, life_vars, sigtab_vars,
                   g_handling_signal, conn_mutex, queue_mutex, t_pc, t_json,
                   h_sig, h_json, h_report>>

(* -------- aivory_ws_send_exception, one lock operation per step -------- *)

\* The record an application thread of SpecSig submits.
AppRecord == [id |-> 0, len |-> 1000]

\* An application thread calls aivory_ws_send_exception:
\* pthread_mutex_lock(&g_connection->mutex).
AppSend_lock(t) ==
    /\ process.kind = "running"
    /\ t_pc[t] = "run"
    /\ h_pc[t] = "none"
    /\ host_pc = "idle"
    /\ conn_exists
    /\ conn_mutex = "free"
    /\ conn_mutex' = t
    /\ t_json' = [t_json EXCEPT ![t] = AppRecord]
    /\ t_pc' = [t_pc EXCEPT ![t] = "conn_locked"]
    /\ UNCHANGED <<pure_vars, side_vars>>
    /\ UNCHANGED <<agent_vars, init_vars, conn_vars, queue, w_pc, prod_vars,
                   net_vars, rejected, life_vars, sigtab_vars, process,
                   g_handling_signal, queue_mutex, h_pc, h_sig, h_json,
                   h_report>>

\* The snapshot of state and authenticated, and the unlock.
AppSend_snapshot(t) ==
    /\ process.kind = "running"
    /\ t_pc[t] = "conn_locked"
    /\ h_pc[t] = "none"
    /\ conn_mutex' = "free"
    /\ t_pc' = [t_pc EXCEPT ![t] =
                   IF state = "AUTHENTICATED" /\ authenticated
                   THEN "send" ELSE "push"]
    /\ UNCHANGED <<pure_vars, side_vars>>
    /\ UNCHANGED <<agent_vars, init_vars, conn_vars, queue, w_pc, prod_vars,
                   net_vars, rejected, life_vars, sigtab_vars, process,
                   g_handling_signal, queue_mutex, t_json, h_pc, h_sig,
                   h_json, h_report>>

\* The direct write; or queue_push's pthread_mutex_lock(queue->mutex).
AppSend_send(t) ==
    /\ process.kind = "running"
    /\ t_pc[t] \in {"send", "push"}
    /\ h_pc[t] = "none"
    /\ IF t_pc[t] = "send"
       THEN /\ SendEffects(Frame("exception", t_json[t], "inline"))
            /\ writable_req' = (writable_req \/ wsi # NULL)
            /\ t_pc' = [t_pc EXCEPT ![t] = "run"]
            /\ t_json' = [t_json EXCEPT ![t] = NoRecord]
            /\ UNCHANGED queue_mutex
       ELSE /\ queue_mutex = "free"
            /\ queue_mutex' = t
            /\ t_pc' = [t_pc EXCEPT ![t] = "queue_locked"]
            /\ UNCHANGED <<writable_req, wire, t_json>>
    /\ UNCHANGED <<pure_vars, side_vars>>
    /\ UNCHANGED <<agent_vars, init_vars, conn_vars, queue, w_pc, prod_vars,
                   link, rejected, life_vars, sigtab_vars, process,
                   g_handling_signal, conn_mutex, h_pc, h_sig, h_json,
                   h_report>>

\* queue_push's body and its unlock.
AppSend_push(t) ==
    /\ process.kind = "running"
    /\ t_pc[t] = "queue_locked"
    /\ h_pc[t] = "none"
    /\ queue' = queue_push(queue, t_json[t])
    /\ queue_mutex' = "free"
    /\ t_pc' = [t_pc EXCEPT ![t] = "run"]
    /\ t_json' = [t_json EXCEPT ![t] = NoRecord]
    /\ UNCHANGED <<pure_vars, side_vars>>
    /\ UNCHANGED <<agent_vars, init_vars, conn_vars, w_pc, prod_vars,
                   net_vars, rejected, life_vars, sigtab_vars, process,
                   g_handling_signal, conn_mutex, h_pc, h_sig, h_json,
                   h_report>>

(* ------------------------- aivory_capture_error ------------------------ *)

\* The bytes that strings are made of here: a letter and the five bytes
\* that escape_json_string treats.
Bytes == {"a", "QUOTE", "BACKSLASH", "NL", "CR", "TAB"}

\* A C string: text, followed by pad more letters.
Str(text, pad) == [text |-> text, pad |-> pad]
strlen(s) == Len(s.text) + s.pad

\* The null pointer passed for a string.
NULLPTR == Str(<<"NULL">>, 0)

\* escape_json_string: a backslash before the quote and the backslash, and
\* the two-byte sequences \n, \r and \t for newline, carriage return and
\* tab; every other byte is copied.
RECURSIVE escape_json_text(_)
escape_json_text(text) ==
    IF text = <<>> THEN <<>>
    ELSE LET c == Head(text)
             e == CASE c = "QUOTE" -> <<"BACKSLASH", "QUOTE">>
                    [] c = "BACKSLASH" -> <<"BACKSLASH", "BACKSLASH">>
                    [] c = "NL" -> <<"BACKSLASH", "n">>
                    [] c = "CR" -> <<"BACKSLASH", "r">>
                    [] c = "TAB" -> <<"BACKSLASH", "t">>
                    [] OTHER -> <<c>>
         IN  e \o escape_json_text(Tail(text))

escape_json_string(s) == Str(escape_json_text(s.text), s.pad)

\* AIVORY_DEFAULT_MAX_STRING_LENGTH, the value of config.max_string_length.
AIVORY_DEFAULT_MAX_STRING_LENGTH == 1000

\* The bytes of a record that do not come from message, file or
\* context_json: the literal text of the format string, the ids, the
\* fingerprint, a short stack trace, the timestamps.
RECORD_FIXED_LEN == 400

\* The messages passed to capture_error: NULL, one byte of each kind, and
\* letters beyond max_string_length and beyond the record buffer.
Messages ==
    {NULLPTR}
       \cup {Str(<<b>>, 0) : b \in Bytes}
       \cup {Str(<<"a">>, 2 * AIVORY_DEFAULT_MAX_STRING_LENGTH),
             Str(<<"a">>, JSON_BUFFER_SIZE)}

\* The file arguments: NULL, a plain name, and a path with a backslash.
Files == {NULLPTR, Str(<<"a">>, 0), Str(<<"a", "BACKSLASH", "a">>, 0)}

\* The context_json arguments, in tokens: NULL, one member without
\* braces, and a JSON object with one member.
Contexts == {NULLSTR, <<"member">>, <<"{", "member", "}">>}

\* A JSON object in tokens: braces around nothing or around members
\* separated by commas.
ValidObject(tokens) ==
    /\ Len(tokens) >= 2
    /\ tokens[1] = "{"
    /\ tokens[Len(tokens)] = "}"
    /\ LET inner == SubSeq(tokens, 2, Len(tokens) - 1)
       IN  \/ inner = <<>>
           \/ /\ Len(inner) % 2 = 1
              /\ \A i \in 1..Len(inner) :
                    inner[i] = IF i % 2 = 1 THEN "member" ELSE ","

\* A string argument as "%s" prints it, or the empty string for NULL.
OrEmpty(s) == IF s = NULLPTR THEN Str(<<>>, 0) ELSE s

\* The record that snprintf formats: message and file are printed as they
\* are; "context":{%s%s%s%s} gets "file":"<file>", when file is not NULL,
\* then context_json when that is not NULL.
format_record(message, file, context_json) ==
    [message |-> OrEmpty(message),
     file |-> OrEmpty(file),
     context |-> <<"{">>
                    \o (IF file # NULLPTR THEN <<"member", ",">> ELSE <<>>)
                    \o (IF context_json # NULLSTR THEN context_json ELSE <<>>)
                    \o <<"}">>,
     truncated |-> FALSE,
     len |-> RECORD_FIXED_LEN + strlen(OrEmpty(message))
                + (IF file # NULLPTR THEN 10 + strlen(file) ELSE 0)
                + (IF context_json # NULLSTR THEN 10 * Len(context_json) ELSE 0)]

\* No record.
NoCapture ==
    [message |-> Str(<<>>, 0), file |-> Str(<<>>, 0), context |-> <<>>,
     truncated |-> FALSE, len |-> 0]

\* No capture_error call yet.
CaptureIdle ==
    [pc |-> "idle", calls |-> 0, message |-> NULLPTR, file |-> NULLPTR,
     context_json |-> NULLSTR, evals |-> 0, work |-> FALSE,
     record |-> NoCapture, result |-> "none"]

\* aivory_should_sample's possible results for a rate in hundredths.
aivory_should_sample(rate) ==
    IF rate >= 100 THEN {TRUE}
    ELSE IF rate <= 0 THEN {FALSE}
    ELSE BOOLEAN

\* The arguments of aivory_set_context: NULL and two JSON objects whose
\* members no capture_error argument has.
SetContexts == {NULLSTR, <<"{", "user", "}">>, <<"{", "tenant", "}">>}

\* aivory_set_context: under g_agent_mutex the old copy is freed and
\* g_agent.custom_context becomes a copy of context_json, or NULL.
aivory_set_context(context_json) == custom_context' = context_json

\* The host calls aivory_set_context while no capture_error call is under
\* way.
SetContext ==
    /\ capture.pc = "idle"
    /\ \E context_json \in SetContexts : aivory_set_context(context_json)
    /\ UNCHANGED <<agent_vars, init_vars, conn_vars, queue, w_pc, prod_vars,
                   net_vars, rejected, life_vars, sigtab_vars, handler_vars,
                   pure_vars, hist_vars>>

\* aivory_capture_error_with_context up to the sampling decision: it
\* returns when the agent is not initialized, and when
\* aivory_should_sample says no.
CaptureError_sample ==
    /\ capture.pc = "idle"
    /\ capture.calls < MaxCaptures
    /\ \E message \in Messages, file \in Files, context_json \in Contexts :
          IF ~initialized
          THEN capture' = [CaptureIdle EXCEPT
                              !.calls = capture.calls + 1,
                              !.message = message, !.file = file,
                              !.context_json = context_json,
                              !.result = "not_initialized"]
          ELSE \E sampled \in aivory_should_sample(config.sampling_rate) :
                  capture' = [CaptureIdle EXCEPT
                                 !.pc = IF sampled THEN "encode" ELSE "idle",
                                 !.calls = capture.calls + 1,
                                 !.message = message, !.file = file,
                                 !.context_json = context_json,
                                 !.evals = 1,
                                 !.result = IF sampled THEN "none" ELSE "unsampled"]
    /\ UNCHANGED <<agent_vars, init_vars, conn_vars, queue, w_pc, prod_vars,
                   net_vars, rejected, life_vars, sigtab_vars, handler_vars,
                   fp, side_vars>>

\* The rest of aivory_capture_error_with_context: the backtrace, the
\* fingerprint, snprintf into the 65536-byte buffer, and
\* aivory_ws_send_exception when 0 < len < 65536; the connection is not
\* authenticated, so the record is queued.
CaptureError_encode ==
    /\ capture.pc = "encode"
    /\ LET rec == format_record(capture.message, capture.file,
                                capture.context_json)
           handed == rec.len > 0 /\ rec.len < JSON_BUFFER_SIZE
       IN  /\ capture' = [capture EXCEPT
                             !.pc = "idle",
                             !.work = TRUE,
                             !.record = rec,
                             !.result = IF handed THEN "handed" ELSE "dropped"]
           /\ queue' = IF handed /\ conn_exists
                       THEN queue_push(queue, [id |-> 0, len |-> rec.len])
                       ELSE queue
    /\ UNCHANGED <<agent_vars, init_vars, conn_vars, w_pc, prod_vars,
                   net_vars, rejected, life_vars, sigtab_vars, handler_vars,
                   fp, side_vars>>

(* --------------------- aivory_calculate_fingerprint -------------------- *)

\* An unsigned long is kept as 16-bit limbs, least significant first.
Limb == 65536

\* The builds: unsigned long has 32 bits (ILP32) or 64 bits (LP64), and
\* plain char is signed (x86) or unsigned (ARM).
Builds == [long_bits : {32, 64}, char_signed : BOOLEAN]

Limbs(build) == build.long_bits \div 16

\* No build: before the first aivory_calculate_fingerprint call.
NoBuild == [long_bits |-> 0, char_signed |-> FALSE]

\* No aivory_calculate_fingerprint call yet.
NoFingerprint ==
    [type |-> <<>>, backtrace |-> <<>>, build |-> NoBuild, out |-> <<>>]

\* a + b + carry in limbs, the carry out of the top limb dropped.
RECURSIVE add_limbs(_, _, _)
add_limbs(a, b, carry) ==
    IF a = <<>> THEN <<>>
    ELSE LET v == Head(a) + Head(b) + carry
         IN  <<v % Limb>> \o add_limbs(Tail(a), Tail(b), v \div Limb)

\* (a << 5) in limbs, with carry coming in from below.
RECURSIVE shl5(_, _)
shl5(a, carry) ==
    IF a = <<>> THEN <<>>
    ELSE LET v == Head(a) * 32 + carry
         IN  <<v % Limb>> \o shl5(Tail(a), v \div Limb)

\* *c converted to unsigned long: a byte from 128 up is negative where
\* char is signed, and its conversion sets every higher bit.
char_to_ulong(c, build) ==
    [i \in 1..Limbs(build) |->
        IF build.char_signed /\ c >= 128
        THEN (IF i = 1 THEN Limb - 256 + c ELSE Limb - 1)
        ELSE (IF i = 1 THEN c ELSE 0)]

\* hash = ((hash << 5) + hash) + *c, for each byte of str.
RECURSIVE hash_bytes(_, _, _)
hash_bytes(hash, str, build) ==
    IF str = <<>> THEN hash
    ELSE hash_bytes(
            add_limbs(add_limbs(shl5(hash, 0), hash, 0),
                      char_to_ulong(Head(str), build), 0),
            Tail(str), build)

HexDigits ==
    <<"0", "1", "2", "3", "4", "5", "6", "7",
      "8", "9", "a", "b", "c", "d", "e", "f">>

\* The hex digits of the limbs at positions 1..n, most significant first,
\* with the given number of hex digits for each limb.
RECURSIVE hex_limbs(_, _, _)
hex_limbs(limbs, n, digits) ==
    IF n = 0 THEN <<>>
    ELSE [i \in 1..digits |->
             HexDigits[((limbs[n] \div (16 ^ (digits - i))) % 16) + 1]]
            \o hex_limbs(limbs, n - 1, digits)

\* snprintf(fingerprint, 17, "%016lx", hash): the hex digits of the
\* unsigned long, padded with zeros on the left to 16.
format_016lx(hash) ==
    [i \in 1..(16 - 4 * Len(hash)) |-> "0"]
       \o hex_limbs(hash, Len(hash), 4)

\* aivory_calculate_fingerprint(type, backtrace) in a build.
aivory_calculate_fingerprint(type, backtrace, build) ==
    LET h0 == [i \in 1..Limbs(build) |-> IF i = 1 THEN 5381 ELSE 0]
        h1 == hash_bytes(h0, type, build)
        n == IF Len(backtrace) < FINGERPRINT_CHARS
             THEN Len(backtrace) ELSE FINGERPRINT_CHARS
        h2 == hash_bytes(h1, SubSeq(backtrace, 1, n), build)
    IN  format_016lx(h2)

\* The type labels ("Error", "SIGSEGV") and the encoded stack traces the
\* function is called with, in byte values: short traces with ASCII and
\* UTF-8 bytes, and traces of FINGERPRINT_CHARS letters and more.
FingerprintTypes ==
    {<<69, 114, 114, 111, 114>>, <<83, 73, 71, 83, 69, 71, 86>>}

TraceBytes == {91, 195, 169}

LongTrace == [i \in 1..FINGERPRINT_CHARS |-> 97]

Backtraces ==
    UNION {[1..n -> TraceBytes] : n \in 0..MaxTraceLen}
       \cup {LongTrace, LongTrace \o <<98>>, LongTrace \o <<99>>}

\* One call of aivory_calculate_fingerprint; the process is of one build.
CalculateFingerprint ==
    /\ \E type \in FingerprintTypes, backtrace \in Backtraces, build \in Builds :
          /\ fp.build \in {NoBuild, build}
          /\ fp' = [type |-> type, backtrace |-> backtrace, build |-> build,
                    out |-> aivory_calculate_fingerprint(type, backtrace, build)]
    /\ UNCHANGED <<agent_vars, init_vars, conn_vars, queue, w_pc, prod_vars,
                   net_vars, rejected, life_vars, sigtab_vars, handler_vars,
                   capture, side_vars>>

(* ---------------------------- specification ---------------------------- *)

\* Before aivory_init: g_agent = {0}, g_connection = NULL, no thread.
Init ==
    /\ initialized = FALSE
    /\ config = ZeroConfig
    /\ agent_id = FALSE
    /\ sig_installed = FALSE
    /\ init_arg = ZeroConfig
    /\ init_ret = 0
    /\ init_calls = 0
    /\ conn_exists = FALSE
    /\ state = "DISCONNECTED"
    /\ authenticated = FALSE
    /\ should_stop = FALSE
    /\ reconnect_attempts = 0
    /\ wsi = NULL
    /\ lws_ctx = NULL
    /\ queue = queue_init
    /\ w_pc = "none"
    /\ p_pc = [p \in Producers |-> "idle"]
    /\ p_json = [p \in Producers |-> NoRecord]
    /\ next_id = 1
    /\ link = "none"
    /\ writable_req = FALSE
    /\ wire = <<>>
    /\ rejected = "no"
    /\ host_pc = "idle"
    /\ host_log = <<>>
    /\ disposition = [sig \in Signals |-> "SIG_DFL"]
    \* static struct sigaction, zeroed: sa_handler = 0, which is SIG_DFL
    /\ g_original = [sig \in Signals |-> "SIG_DFL"]
    /\ g_agent_ref = FALSE
    /\ pre_init = [sig \in Signals |-> "SIG_DFL"]
    /\ process = Running
    /\ g_handling_signal = 0
    /\ conn_mutex = "free"
    /\ queue_mutex = "free"
    /\ t_pc = [t \in Threads |-> "run"]
    /\ t_json = [t \in Threads |-> NoRecord]
    /\ h_pc = [t \in Threads |-> "none"]
    /\ h_sig = [t \in Threads |-> "none"]
    /\ h_json = [t \in Threads |-> NoRecord]
    /\ h_report = [t \in Threads |-> "none"]
    /\ capture = CaptureIdle
    /\ fp = NoFingerprint
    /\ custom_context = NULLSTR
    /\ queue_log = queue_log_init
    /\ delay = 0
    /\ now = 0
    /\ last_heartbeat = 0
    /\ hb_log = <<>>
    /\ target = NoTarget

Producer ==
    \E p \in Producers :
        \/ SendException_snapshot(p)
        \/ SendException_direct(p)
        \/ SendException_queue(p)

Worker ==
    \/ ws_thread_parse_url
    \/ ws_thread_loop
    \/ ws_callback_register
    \/ ws_thread_service
    \/ ws_thread_cleanup
    \/ ws_thread_reconnect
    \/ ws_callback_receive
    \/ ws_callback_drain
    \/ ws_callback_writeable
    \/ ws_callback_closed
    \/ ws_thread_heartbeat
    \/ ws_thread_service_return

Next == HostInit \/ Producer \/ Worker

Spec == Init /\ [][Next]_vars

\* The host calls aivory_init with any argument, also on an initialized
\* agent; the worker thread a call starts parses the URL.
NextInit == HostInitAny \/ ws_thread_parse_url

SpecInit == Init /\ [][NextInit]_vars

\* The host thread initialises and shuts down, in any order, while the
\* worker runs. No producer runs, so the
\* WRITEABLE callback is never requested.
NextLife ==
    \/ HostInitLife
    \/ HostShutdown
    \/ HostShutdown_join
    \/ ws_thread_parse_url
    \/ ws_thread_loop
    \/ ws_callback_register
    \/ ws_thread_service
    \/ ws_thread_cleanup
    \/ ws_thread_reconnect
    \/ ws_callback_receive
    \/ ws_callback_drain
    \/ ws_callback_closed
    \/ ws_thread_heartbeat
    \/ ws_thread_service_return

SpecLife == Init /\ [][NextLife]_vars

\* The worker thread is scheduled: each statement of ws_thread_func that
\* can run does run, sleep returns after its delay, and the drain loop
\* goes on; a call of lws_service runs finitely many callbacks and
\* returns; pthread_join returns once the worker has returned. What the
\* peer sends and when the connection closes is left open.
FairLife ==
    /\ WF_vars(ws_thread_parse_url)
    /\ WF_vars(ws_thread_loop)
    /\ WF_vars(ws_callback_register)
    /\ WF_vars(ws_thread_service)
    /\ WF_vars(ws_thread_cleanup)
    /\ WF_vars(ws_thread_reconnect)
    /\ WF_vars(ws_callback_drain)
    /\ SF_vars(ws_thread_heartbeat \/ ws_thread_service_return)
    /\ WF_vars(HostShutdown_join)

SpecLifeFair == SpecLife /\ FairLife

\* The configurations the host of SpecSig passes: a key, the plain URL,
\* signal capture on, sampling rate 0 or 1.0.
SigArgs ==
    {cfg \in aivory_config_t :
        /\ cfg.backend_url = URL_WS
        /\ cfg.capture_signals
        /\ cfg.api_key = <<"k">>
        /\ cfg.sampling_rate \in {0, 100}}

\* The host calls aivory_init while no thread is inside the agent.
HostInitSig ==
    /\ process.kind = "running"
    /\ Quiet
    /\ host_pc = "idle"
    /\ init_calls < MaxInitCalls
    /\ Len(host_log) < MaxHostCalls
    /\ \E cfg \in SigArgs : aivory_init(cfg, TRUE)
    /\ host_log' = Append(host_log, IF init_ret' = 0 THEN "init" ELSE "init_failed")
    /\ UNCHANGED <<host_pc, rest_vars>>

\* The host installs its own handlers before it initialises the agent.
HostSigactionFirst == host_log = <<>> /\ HostSigaction

\* The worker seen from the signal table: it starts, stays disconnected,
\* and returns when should_stop is set.
SigWorker ==
    \/ ws_thread_parse_url
    \/ should_stop /\ ws_thread_loop

\* A host that installs handlers of its own, initialises and shuts down, in
\* any order; no fatal signal is raised.
NextSigtab ==
    \/ HostInitLife
    \/ HostSigaction
    \/ HostShutdown
    \/ HostShutdown_join
    \/ SigWorker

SpecSigtab == Init /\ [][NextSigtab]_vars

\* Fatal signals in application threads that submit records to an agent
\* whose connection is not yet established; the host has installed
\* handlers of its own first.
NextSig ==
    \/ HostSigactionFirst
    \/ HostInitSig
    \/ process.kind = "running" /\ ws_thread_parse_url
    \/ \E t \in Threads :
          \/ Deliver(t)
          \/ Handler_guard(t)
          \/ Handler_set(t)
          \/ Handler_report(t)
          \/ Handler_send_lock(t)
          \/ Handler_send(t)
          \/ Handler_restore(t)
          \/ Handler_return(t)
          \/ AppSend_lock(t)
          \/ AppSend_snapshot(t)
          \/ AppSend_send(t)
          \/ AppSend_push(t)

SpecSig == Init /\ [][NextSig]_vars

\* The configurations the host of SpecCapture passes: a key, the plain
\* URL, no signal capture, every sampling rate.
CaptureArgs ==
    {cfg \in aivory_config_t :
        /\ cfg.backend_url = URL_WS
        /\ cfg.api_key = <<"k">>
        /\ ~cfg.capture_signals}

\* The host calls aivory_init while no capture_error call is under way.
HostInitCapture ==
    /\ capture.pc = "idle"
    /\ init_calls < MaxInitCalls
    /\ \E cfg \in CaptureArgs : aivory_init(cfg, TRUE)
    /\ UNCHANGED <<life_vars, rest_vars>>

\* Explicit errors reported to an agent whose connection is not yet
\* established.
NextCapture ==
    \/ HostInitCapture
    \/ CaptureError_sample
    \/ CaptureError_encode
    \/ SetContext

SpecCapture == Init /\ [][NextCapture]_vars

\* One queue_push call with a new record; the history notes the record and
\* whether the head was evicted.
QueuePush ==
    /\ Len(queue_log.pushed) < MaxPushes
    /\ \E len \in RecordLens :
          LET json == [id |-> Len(queue_log.pushed) + 1, len |-> len]
          IN  /\ queue' = queue_push(queue, json)
              /\ queue_log' =
                    [queue_log EXCEPT
                        !.pushed = Append(@, json),
                        !.evictions =
                            IF queue.count >= queue.max_size
                                  /\ queue.entries # <<>>
                            THEN @ + 1 ELSE @]
    /\ UNCHANGED <<agent_vars, init_vars, conn_vars, w_pc, prod_vars,
                   net_vars, rejected, life_vars, sigtab_vars, handler_vars,
                   pure_vars, custom_context, target, delay, time_vars>>

\* One queue_pop call; the history counts it, and counts it again when it
\* found the queue empty and returned NULL.
QueuePop ==
    /\ queue_log.pops < MaxPushes
    /\ queue' = queue_pop(queue).q
    /\ queue_log' =
          [queue_log EXCEPT
              !.pops = @ + 1,
              !.empty_pops = IF queue_pop(queue).json = NoRecord
                             THEN @ + 1 ELSE @]
    /\ UNCHANGED <<agent_vars, init_vars, conn_vars, w_pc, prod_vars,
                   net_vars, rejected, life_vars, sigtab_vars, handler_vars,
                   pure_vars, custom_context, target, delay, time_vars>>

\* The connect pass of a worker whose peer is never reachable: no context
\* or no handle.
ws_thread_loop_unreachable ==
    ws_thread_loop /\ w_pc' \in {"reconnect", "returned"}

\* A worker whose peer is never reachable, with the code's limit of 10
\* attempts, and a producer.
NextReconnect ==
    \/ HostInit
    \/ \E p \in Producers :
          SendException_snapshot(p) \/ SendException_queue(p)
    \/ ws_thread_parse_url
    \/ ws_thread_loop_unreachable
    \/ ws_thread_reconnect_10

SpecReconnect == Init /\ [][NextReconnect]_vars

\* The worker with the clock, and no producer.
NextHeartbeat ==
    \/ HostInit
    \/ ws_thread_parse_url
    \/ ws_thread_loop_timed
    \/ ws_callback_register
    \/ ws_thread_service
    \/ ws_thread_cleanup
    \/ ws_thread_reconnect
    \/ ws_callback_receive
    \/ ws_callback_drain
    \/ ws_callback_closed
    \/ ws_thread_heartbeat_timed
    \/ ws_thread_service_return_timed
    \/ Tick

SpecHeartbeat == Init /\ [][NextHeartbeat]_vars

\* n letters.
Letters(n) == [i \in 1..n |-> "a"]

\* The parts a backend URL is written from: a scheme, a host (a short
\* one, a dotted one, and the longest that fits host[256] and one more),
\* a port or none, and a path or none (the root, a short one, and the
\* longest that fits path[512] and one more).
Schemes == {<<"w", "s">>, <<"w", "s", "s">>, <<"h", "t", "t", "p">>,
            <<"W", "S", "S">>}
Hosts ==
    {<<"h">>,
     <<"h", "o", "s", "t", ".", "e", "x", "a", "m", "p", "l", "e">>,
     Letters(HOST_SIZE - 1), Letters(HOST_SIZE)}
Ports == {NULLSTR, <<"7", "4", "4", "3">>, <<"8", "0">>}
Paths ==
    {NULLSTR, <<"/">>, <<"/", "a", "p", "i", "/", "v", "1">>,
     <<"/">> \o Letters(PATH_SIZE - 2), <<"/">> \o Letters(PATH_SIZE - 1)}
UrlParts == [scheme : Schemes, host : Hosts, port : Ports, path : Paths]

\* The URL string written from its parts.
Render(c) ==
    c.scheme \o <<":", "/", "/">> \o c.host
       \o (IF c.port # NULLSTR THEN <<":">> \o c.port ELSE <<>>)
       \o (IF c.path # NULLSTR THEN c.path ELSE <<>>)

Urls == {Render(c) : c \in UrlParts}

\* The host calls aivory_init once with a key and one of the URLs.
HostInitUrl ==
    /\ ~initialized
    /\ init_calls < MaxInitCalls
    /\ \E url \in Urls :
          aivory_init([is_null |-> FALSE, api_key |-> <<"k">>,
                       backend_url |-> url, capture_signals |-> FALSE,
                       sampling_rate |-> 100], TRUE)
    /\ UNCHANGED <<life_vars, rest_vars>>

\* The worker parses the configured URL and, when parse_url accepts it,
\* goes round its loop against a peer that is never reachable.
NextUrl ==
    \/ HostInitUrl
    \/ ws_thread_parse_url
    \/ ws_thread_loop_unreachable
    \/ ws_thread_reconnect

SpecUrl == Init /\ [][NextUrl]_vars

\* The rest of aivory_ws_send_exception in a producer whose connection
\* object aivory_ws_disconnect has freed meanwhile: g_connection is NULL
\* or dangling, and the lock, the push and the unlock on it are undefined.
\* The call ends the process with SIGSEGV, or goes on to return.
SendException_freed(p) ==
    /\ process.kind = "running"
    /\ p_pc[p] \in {"send", "push"}
    /\ ~conn_exists
    /\ \E outcome \in {"fault", "return"} :
          /\ process' = IF outcome = "fault" THEN Signaled("SIGSEGV")
                         ELSE process
          /\ p_pc' = [p_pc EXCEPT ![p] = "idle"]
          /\ p_json' = [p_json EXCEPT ![p] = NoRecord]
    /\ UNCHANGED <<agent_vars, init_vars, conn_vars, queue, w_pc, next_id,
                   net_vars, rejected, life_vars, sigtab_vars,
                   g_handling_signal, conn_mutex, queue_mutex, t_pc, t_json,
                   h_pc, h_sig, h_json, h_report, pure_vars, side_vars>>

\* A producer thread calls capture_error, which finds g_agent.initialized
\* set and goes into aivory_ws_send_exception, while the host thread
\* initialises and shuts down; the worker stays disconnected and returns
\* when should_stop is set.
Alive(A) == process.kind = "running" /\ A

NextRace ==
    \/ Alive(HostInitLife)
    \/ Alive(HostShutdown)
    \/ Alive(HostShutdown_join)
    \/ Alive(SigWorker)
    \/ \E p \in Producers :
          \/ Alive(initialized /\ SendException_snapshot(p))
          \/ Alive(conn_exists /\ SendException_queue(p))
          \/ SendException_freed(p)

SpecRace == Init /\ [][NextRace]_vars

\* Pushes and pops on one queue, in any order.
NextQueue == QueuePush \/ QueuePop

SpecQueue == Init /\ [][NextQueue]_vars

\* Fingerprints of type labels and stack traces, in each build.
NextFingerprint == CalculateFingerprint

SpecFingerprint == Init /\ [][NextFingerprint]_vars

(* ------------------------------ properties ----------------------------- *)

Last(seq) == seq[Len(seq)]

\* Producer p's send_exception call returns in this step.
Returns(p) == p_pc[p] # "idle" /\ p_pc'[p] = "idle"

\* Producer p's send_exception call starts in this step.
Starts(p) == p_pc[p] = "idle" /\ p_pc'[p] # "idle"

\* The step writes p's record inline to the connection.
WrittenInline(p) ==
    wire' = Append(wire, Frame("exception", p_json[p], "inline"))

\* The step appends p's record to the queue.
Appended(p) ==
    /\ queue'.entries # <<>>
    /\ Last(queue'.entries) = p_json[p]
    /\ Len(queue'.entries) = Len(queue.entries) + 1
       \/ (/\ Len(queue'.entries) = Len(queue.entries)
           /\ queue'.entries # queue.entries)

\* The step removes the head of the queue without appending: a pop.
Popped ==
    /\ queue.entries # <<>>
    /\ queue'.entries = Tail(queue.entries)

\* The exception frames of a wire written on one of the paths in vias.
ExceptionFrames(w, vias) ==
    {i \in 1..Len(w) : w[i].type = "exception" /\ w[i].via \in vias}

\* The frames at the places idx of w carry increasing record numbers.
Ordered(w, idx) ==
    \A i, j \in idx : i < j => w[i].json.id < w[j].json.id

\* C1: every send_exception call made while the connection object exists
\* ends with its record written inline (snapshot AUTHENTICATED) or appended
\* to the queue (any other snapshot), never neither and never both.
C1_WrittenOrQueued ==
    [][\A p \in Producers :
          Returns(p) =>
             /\ p_pc[p] = "send" => WrittenInline(p) /\ queue' = queue
             /\ p_pc[p] = "push" => Appended(p) /\ wire' = wire]_vars

\* C2: on every connection the register frame is the first frame written.
C2_RegisterFirst ==
    wire # <<>> => wire[1].type = "register"

\* C3: after a successful open the worker keeps servicing I/O: it does not
\* leave the service loop for the cleanup while the connection attempt has
\* neither failed nor completed and stop has not been requested.
C3_KeepsServicing ==
    [][(w_pc = "service_loop" /\ link = "pending" /\ ~should_stop)
          => w_pc' # "reconnect"]_vars

\* C4 (state part): the records written from the queue stand on the wire in
\* the order they were submitted, and ahead of the records still queued,
\* which stand in the queue in that order too.
C4_FifoState ==
    LET fromQueue == ExceptionFrames(wire, {"drain", "writeable"}) IN
       /\ Ordered(wire, fromQueue)
       /\ \A i, j \in 1..Len(queue.entries) :
             i < j => queue.entries[i].id < queue.entries[j].id
       /\ \A i \in fromQueue, j \in 1..Len(queue.entries) :
             wire[i].json.id < queue.entries[j].id

\* C4 (step part): a frame the worker writes from the queue is the head
\* entry as it stood in the queue, and the entries that stay in the queue
\* are not changed by any step.
C4_FifoStep ==
    /\ (Len(wire') = Len(wire) + 1 /\ Last(wire').via \in {"drain", "writeable"})
          => /\ queue.entries # <<>>
             /\ Last(wire').json = Head(queue.entries)
             /\ Last(wire').type = "exception"
    /\ \E k \in 0..Len(queue.entries) :
          LET kept == SubSeq(queue.entries, k + 1, Len(queue.entries)) IN
             \/ queue'.entries = kept
             \/ \E p \in Producers : queue'.entries = Append(kept, p_json[p])

\* C4 (drain part): a record the drain takes from the queue is written.
C4_DrainWrites ==
    (w_pc = "cb_drain" /\ Popped) =>
       wire' = Append(wire, Frame("exception", Head(queue.entries), "drain"))

\* C4: records A then B queued by one producer while not AUTHENTICATED are
\* written on the next authentication, in FIFO order, each byte-identical to
\* what was submitted.
C4_QueuedWrittenInOrder ==
    /\ []C4_FifoState
    /\ [][C4_FifoStep /\ C4_DrainWrites]_vars

\* The order and identity parts of C4 alone: the records that are written
\* from the queue are written in FIFO order and unchanged.
WrittenFromQueueInOrder == []C4_FifoState /\ [][C4_FifoStep]_vars

\* C5: the records of one producer that are written stand on the wire in
\* the order the producer submitted them.
C5_SubmissionOrder ==
    Ordered(wire, ExceptionFrames(wire, {"inline", "drain", "writeable"}))

WritesFromQueue ==
    /\ Len(wire') = Len(wire) + 1
    /\ Last(wire').via \in {"drain", "writeable"}

\* What follows a rejection of the kinds in kinds (state part): the stop flag
\* is set and the worker is past its last connection attempt; unless a
\* "registered" frame overrode the rejection the connection is not
\* authenticated and the drain is not running.
RejectionStops(kinds) ==
    rejected \in kinds =>
       /\ should_stop
       /\ w_pc \notin {"parse_url", "loop", "cb_register"}
       /\ rejected # "overridden" =>
             /\ state # "AUTHENTICATED"
             /\ ~authenticated
             /\ w_pc # "cb_drain"

\* What follows a rejection of the kinds in kinds (step part): nothing is
\* taken from the queue, and a send_exception call that starts takes the
\* queue path, on which it appends its record and writes nothing.
RejectionKeepsQueue(kinds) ==
    rejected \in kinds =>
       /\ ~Popped
       /\ ~WritesFromQueue
       /\ \A p \in Producers :
             /\ Starts(p) => p_pc'[p] = "push"
             /\ (Returns(p) /\ p_pc[p] = "push") => Appended(p) /\ wire' = wire

\* C8 as stated: a frame received before authentication that contains
\* "error" with "auth_error" or "invalid_api_key" sets the stop flag, the
\* worker makes no further attempt, the queue is not drained and later
\* send_exception calls only enqueue.
C8_RejectionFinal ==
    /\ []RejectionStops({"mixed", "clean", "overridden", "final"})
    /\ [][RejectionKeepsQueue({"mixed", "clean", "overridden", "final"})]_vars

\* The same for a rejection frame that does not contain "registered"; the
\* queue is kept and later calls only enqueue when no "registered" frame
\* follows inside the same lws_service call.
CleanRejectionFinal ==
    /\ []RejectionStops({"clean", "overridden", "final"})
    /\ [][RejectionKeepsQueue({"clean", "final"})]_vars

\* The step is an aivory_init call.
InitCall == init_calls' = init_calls + 1

\* C9: aivory_init with a null configuration, or with a null or empty API
\* key, returns an error and changes nothing: no handler installed, no
\* connection, no worker thread, the agent as initialized as before.
C9_InitRejectsMissingKey ==
    [][(/\ InitCall
        /\ \/ init_arg'.is_null
           \/ init_arg'.api_key = NULLSTR
           \/ Len(init_arg'.api_key) = 0)
          => /\ init_ret' = -1
             /\ UNCHANGED <<initialized, config, agent_id, sig_installed,
                            conn_vars, queue, w_pc>>]_vars

\* C9 witness: a first call with an empty key and capture_signals set has
\* returned -1 and left the agent uninitialized.
C9_Witness ==
    /\ init_calls = 1
    /\ ~init_arg.is_null /\ init_arg.api_key = <<>> /\ init_arg.capture_signals
    /\ init_ret = -1
    /\ ~initialized /\ ~sig_installed /\ ~conn_exists /\ w_pc = "none"

\* C10: aivory_init on an uninitialized agent with a backend URL that does
\* not begin with ws:// or wss:// returns an error and leaves the agent
\* uninitialized.
C10_InitRejectsMalformedUrl ==
    [][(/\ InitCall
        /\ ~initialized
        /\ ~init_arg'.is_null
        /\ ~strncmp_eq(init_arg'.backend_url, <<"w", "s", ":", "/", "/">>)
        /\ ~strncmp_eq(init_arg'.backend_url, <<"w", "s", "s", ":", "/", "/">>))
          => /\ init_ret' = -1
             /\ ~initialized']_vars

\* The step is the return of an aivory_init or aivory_shutdown call of the
\* kind named.
HostCallReturns(kind) ==
    /\ Len(host_log') = Len(host_log) + 1
    /\ Last(host_log') = kind

\* C11 (state part): while the host is in no call, an agent that is not
\* initialized has no worker and no connection object.
C11_UninitializedIsBare ==
    (host_pc = "idle" /\ ~initialized) =>
       /\ ~conn_exists
       /\ w_pc = "none"
       /\ config = ZeroConfig
       /\ ~agent_id

\* C11 (step part): a shutdown of an agent that is not initialized changes
\* nothing; a shutdown of an initialized agent leaves it uninitialized with
\* no worker and no connection object; an init with a key on an agent that
\* is not initialized, also after a shutdown, succeeds.
C11_ShutdownStep ==
    /\ (host_pc = "idle" /\ ~initialized
          /\ (HostCallReturns("shutdown") \/ HostCallReturns("shutdown_noop")))
          => /\ Last(host_log') = "shutdown_noop"
             /\ UNCHANGED <<agent_vars, init_vars, conn_vars, queue, w_pc,
                            prod_vars, net_vars, sigtab_vars, host_pc,
                            rest_vars>>
    /\ (initialized
          /\ (HostCallReturns("shutdown") \/ HostCallReturns("shutdown_noop")))
          => /\ Last(host_log') = "shutdown"
             /\ ~initialized'
             /\ ~conn_exists'
             /\ w_pc' = "none"
             /\ host_pc' = "idle"
    /\ (~initialized
          /\ (HostCallReturns("init") \/ HostCallReturns("init_failed"))
          /\ init_arg'.api_key # <<>>)
          => /\ Last(host_log') = "init"
             /\ init_ret' = 0
             /\ initialized'

\* C11: shutdown is idempotent and a no-op without init, and a later init
\* succeeds again.
C11_ShutdownIdempotent ==
    []C11_UninitializedIsBare /\ [][C11_ShutdownStep]_vars

\* C11 witness: init, shutdown, a second shutdown and a second init that
\* gave the agent a new connection object.
C11_Witness ==
    /\ host_log = <<"init", "shutdown", "shutdown_noop", "init">>
    /\ initialized
    /\ conn_exists

\* C12: when a shutdown of an agent initialized with capture_signals = true
\* returns, every signal has the handler it had before that init, and
\* g_agent_ref is cleared.
C12_HandlersRestored ==
    [][(HostCallReturns("shutdown") /\ config.capture_signals)
          => /\ \A sig \in Signals : disposition'[sig] = pre_init[sig]
             /\ ~g_agent_ref']_vars

\* C12 witness: the host installed a handler of its own, initialized with
\* capture_signals = true and shut down, and its handler is back.
C12_Witness ==
    /\ host_log = <<"init", "shutdown">>
    /\ init_arg.capture_signals
    /\ \E sig \in Signals : pre_init[sig] = "host" /\ disposition[sig] = "host"
    /\ ~g_agent_ref

\* The threads whose handler execution is past the reentry guard.
PastGuard == {t \in Threads : h_pc[t] \notin {"none", "guard"}}

\* C13 (state part): at most one handler execution is past the guard, and
\* a process ended by _exit(128 + signo) was ended by a handler that found
\* the flag set for that signo.
C13_OnePastGuard ==
    /\ Cardinality(PastGuard) <= 1
    /\ process.kind = "exited_128_plus" =>
          /\ g_handling_signal # 0
          /\ \E t \in Threads : h_pc[t] = "guard" /\ h_sig[t] = process.sig

\* C13 (step part): a handler entered while g_handling_signal is set does
\* not get past the guard: it captures nothing and hands over no record.
C13_ReentryExits ==
    \A t \in Threads :
       (h_pc[t] = "guard" /\ g_handling_signal # 0)
          => /\ h_pc'[t] = "guard"
             /\ h_report'[t] = h_report[t]
             /\ h_json'[t] = h_json[t]

\* C13: a handler entered with the flag set ends the process with
\* 128 + signo and does nothing else, and the check and the set of the
\* flag let at most one handler execution past the guard, also when two
\* threads receive fatal signals concurrently.
C13_GuardAdmitsOne == []C13_OnePastGuard /\ [][C13_ReentryExits]_vars

\* Thread t's handler installs a disposition and re-raises; t's handler
\* returns.
Restores(t) == h_pc[t] = "restore" /\ h_pc'[t] = "raised"
HandlerReturns(t) == h_pc[t] = "raised" /\ h_pc'[t] = "none"

\* The handler to be reinstalled for sig: the one in place
\* before init, the platform default when that was no handler function.
PreviousOrDefault(sig) ==
    IF pre_init[sig] = "host" THEN "host" ELSE "SIG_DFL"

\* C14 as stated: the handler reinstalls the handler that was in place
\* before init, or the default, and re-raises, and the process then ends
\* with the original signal as its termination signal.
C14_ReRaiseTerminates ==
    [][\A t \in Threads :
          /\ Restores(t) => disposition'[h_sig[t]] = PreviousOrDefault(h_sig[t])
          /\ HandlerReturns(t) => process' = Signaled(h_sig[t])]_vars

\* C14, amended: the handler reinstalls the handler that was in place
\* before init, or the default, and re-raises; when it returns with the
\* default installed the process ends with the original signal as its
\* termination signal, and when it returns with a handler of the host
\* installed that handler runs and decides what becomes of the process.
C14_ReRaiseChains ==
    [][\A t \in Threads :
          /\ Restores(t) => disposition'[h_sig[t]] = PreviousOrDefault(h_sig[t])
          /\ HandlerReturns(t) =>
                IF pre_init[h_sig[t]] = "host"
                THEN process' \in {host_handler(h_sig[t], outcome) :
                                      outcome \in HostHandlerOutcomes}
                ELSE process' = Signaled(h_sig[t])]_vars

\* C14 witness: a handler handed over its record for a signal and
\* returned, and the host's own handler for that signal, in place before
\* init, ended the process with exit.
C14_Witness ==
    /\ process.kind = "exited_by_host"
    /\ \E t \in Threads :
          /\ h_pc[t] = "none"
          /\ h_report[t] = "handed"
          /\ h_sig[t] = process.sig
          /\ pre_init[h_sig[t]] = "host"

\* C15: the handler never waits for a lock that the code it interrupted
\* holds: no thread's handler is at the lock of the connection's mutex or
\* of the queue's mutex while that thread itself owns the mutex.
C15_HandlerTakesNoHeldLock ==
    \A t \in Threads :
       /\ ~(h_pc[t] = "send_lock" /\ conn_mutex = t)
       /\ ~(h_pc[t] = "push" /\ queue_mutex = t)

\* Thread t's handler passes the report part of signal_handler.
Reports(t) == h_pc[t] = "report" /\ h_pc'[t] # "report"

\* C16: whatever the sampling rate, the handler of an initialized agent
\* builds its record and hands it to aivory_ws_send_exception.
C16_SignalReportNotSampled ==
    [][\A t \in Threads :
          (Reports(t) /\ g_agent_ref /\ initialized)
             => /\ h_report'[t] = "handed"
                /\ h_json'[t] # NoRecord]_vars

\* A capture_error call starts; a call that was sampled does its encoding
\* work and returns.
CaptureStarts == capture.pc = "idle" /\ capture'.calls = capture.calls + 1
CaptureEncodes == capture.pc = "encode" /\ capture'.pc = "idle"

\* C17 without its rate >= 1.0 clause: aivory_should_sample is evaluated
\* once in a call on an initialized agent, before the backtrace and the
\* encoding, and with rate <= 0.0 the call hands over nothing and leaves
\* the queue as it is.
SampledOnceBeforeWork ==
    /\ (CaptureStarts /\ initialized)
          => /\ capture'.evals = 1
             /\ ~capture'.work
             /\ config.sampling_rate >= 100 => capture'.pc = "encode"
             /\ config.sampling_rate <= 0 =>
                   /\ capture'.pc = "idle"
                   /\ capture'.result = "unsampled"
                   /\ queue' = queue
    /\ CaptureEncodes => capture.evals = 1 /\ capture'.evals = 1

\* C17: the sampling decision is evaluated exactly once per capture_error
\* call and before any backtrace or encoding work; with rate >= 1.0 every
\* call on an initialized agent hands one record to the transport, and
\* with rate <= 0.0 no call hands over a record or changes the queue.
C17_SampledOncePerCall ==
    [][/\ SampledOnceBeforeWork
       /\ (CaptureEncodes /\ config.sampling_rate >= 100)
             => capture'.result = "handed"]_vars

\* C19: every record that capture_error hands to the transport is
\* well-formed: its message and file strings are escape-encoded and its
\* context object is syntactically valid, whether file and context_json
\* are null or not.
C19_RecordWellFormed ==
    capture.result = "handed" =>
       /\ capture.record.message = escape_json_string(OrEmpty(capture.message))
       /\ capture.record.file = escape_json_string(OrEmpty(capture.file))
       /\ ValidObject(capture.record.context)

\* C20: a call that reaches the encoding hands its record to the
\* transport whatever the length of the message, and a message longer than
\* max_string_length is truncated in the record and marked as truncated.
C20_LongFieldTruncated ==
    [][CaptureEncodes =>
          /\ capture'.result = "handed"
          /\ strlen(OrEmpty(capture.message)) > AIVORY_DEFAULT_MAX_STRING_LENGTH
                => /\ capture'.record.truncated
                   /\ strlen(capture'.record.message)
                         < strlen(capture.message)]_vars

\* h * 33 + b modulo 2^64 on eight 8-bit limbs, least significant first:
\* each limb times 33 plus the carry, which starts as the byte b.
RECURSIVE times33_plus(_, _)
times33_plus(h, carry) ==
    IF h = <<>> THEN <<>>
    ELSE LET v == Head(h) * 33 + carry
         IN  <<v % 256>> \o times33_plus(Tail(h), v \div 256)

RECURSIVE hash33(_, _)
hash33(h, str) ==
    IF str = <<>> THEN h ELSE hash33(times33_plus(h, Head(str)), Tail(str))

\* The fingerprint as it is specified: the 33-multiply hash from 5381
\* over type and the first FINGERPRINT_CHARS bytes of stack, modulo 2^64,
\* as 16 lowercase hex digits.
Fingerprint64(type, stack) ==
    LET h0 == <<5381 % 256, 5381 \div 256, 0, 0, 0, 0, 0, 0>>
        n == IF Len(stack) < FINGERPRINT_CHARS THEN Len(stack)
             ELSE FINGERPRINT_CHARS
        h == hash33(hash33(h0, type), SubSeq(stack, 1, n))
    IN  hex_limbs(h, 8, 2)

\* C18: fingerprint(type, stack) is the 33-multiply hash started at 5381,
\* modulo 2^64, over type and the first FINGERPRINT_CHARS bytes of stack,
\* as exactly 16 lowercase zero-padded hex digits, in every build.
C18_FingerprintIsHash33 ==
    fp.build # NoBuild =>
       /\ Len(fp.out) = 16
       /\ fp.out = Fingerprint64(fp.type, fp.backtrace)

(* ------------------------ C21: the custom context ----------------------- *)

\* The record's context holds the members of the context c.
Carries(context, c) ==
    \E i \in 1..Len(context) : \E j \in i..Len(context) :
       SubSeq(context, i, j) \in {c, SubSeq(c, 2, Len(c) - 1)}

\* C21: a record that capture_error builds while g_agent.custom_context
\* holds a context c set by set_context carries c.
C21_RecordCarriesContext ==
    [][(CaptureEncodes /\ custom_context # NULLSTR)
          => Carries(capture'.record.context, custom_context)]_vars

(* --------------------------- C22: the queue ---------------------------- *)

\* The last n elements of seq.
Suffix(seq, n) == SubSeq(seq, Len(seq) - n + 1, Len(seq))

Min(a, b) == IF a < b THEN a ELSE b

\* N pushes, M pops (those on an empty queue included), of which Hits
\* returned an entry.
PushCount == Len(queue_log.pushed)
PopCount == queue_log.pops
PopHits == queue_log.pops - queue_log.empty_pops

ConnectionEnds ==
    \/ w_pc = "in_service" /\ link = "open" /\ link' = "none"
    \/ /\ w_pc = "service_loop" /\ w_pc' = "reconnect"
       /\ <<state, wsi, authenticated>>' # <<state, wsi, authenticated>>

\* C23: every connection error or close event sets the state to
\* DISCONNECTED, clears authenticated and the handle, and leaves the
\* queue's contents and order as they were.
C23_CloseResetsConnection ==
    [][ConnectionEnds =>
          /\ state' = "DISCONNECTED"
          /\ authenticated' = FALSE
          /\ wsi' = NULL
          /\ queue' = queue]_vars

\* The connection was closed inside lws_service while records were queued.
C23_Witness ==
    /\ w_pc = "in_service"
    /\ link = "none"
    /\ state = "DISCONNECTED"
    /\ queue.count > 0

(* ---------------- C24: the reconnect counter is reset ------------------ *)

\* The connection state becomes AUTHENTICATED.
Authenticates == state # "AUTHENTICATED" /\ state' = "AUTHENTICATED"

\* C24: every transition of the connection state into AUTHENTICATED
\* resets the reconnect attempt counter to zero.
C24_AuthenticationResetsAttempts ==
    [][Authenticates => reconnect_attempts' = 0]_vars

(* ------------------- C25: the worker gives up ------------------------- *)

\* The attempt counter has exceeded the limit.
GaveUp == reconnect_attempts > MaxReconnectAttempts

\* C25: when the attempt counter exceeds the limit the worker has
\* terminated and the process runs on; from then on no connection attempt
\* is made, and a send_exception call that starts goes to the queue,
\* which stays within its bound.
C25_GivesUpAndQueues ==
    /\ [](GaveUp =>
             /\ w_pc = "returned"
             /\ process = Running
             /\ queue.count <= queue.max_size)
    /\ [][GaveUp =>
             /\ w_pc' = "returned"
             /\ <<link, lws_ctx, wsi, wire>>' = <<link, lws_ctx, wsi, wire>>
             /\ \A p \in Producers : Starts(p) => p_pc'[p] = "push"]_vars

\* The worker gave up, and the producer has filled the queue since.
C25_Witness ==
    /\ GaveUp
    /\ w_pc = "returned"
    /\ queue.count = queue.max_size
    /\ queue.entries[1].id > 1

(* ------------------- C26: the reconnect delay -------------------------- *)

\* The worker sleeps before reconnect attempt number n.
SleepsBefore(n) ==
    /\ w_pc = "reconnect" /\ w_pc' = "loop"
    /\ reconnect_attempts' = n

\* 2, 4, 8, 16, 32, 64, 64, ...
DelaySequence == <<2, 4, 8, 16, 32, 64, 64, 64, 64, 64>>

\* C26: the delay before reconnect attempt number n, 1 <= n <= 10, is
\* 2^min(n, 6) seconds, the sequence 2, 4, 8, 16, 32, 64, 64, ..., and
\* never more than 64 seconds.
C26_DelayIsCappedPowerOfTwo ==
    [][\A n \in 1..RECONNECT_LIMIT :
          SleepsBefore(n) =>
             /\ delay' = 2 ^ Min(n, 6)
             /\ delay' = DelaySequence[n]
             /\ delay' <= 64]_vars

\* The worker has slept before its tenth attempt.
C26_Witness ==
    /\ reconnect_attempts = RECONNECT_LIMIT
    /\ w_pc = "loop"
    /\ delay = 64

(* ------------------------- C27: the heartbeat -------------------------- *)

\* The step writes a heartbeat frame.
WritesHeartbeat ==
    /\ Len(wire') = Len(wire) + 1
    /\ Last(wire').type = "heartbeat"

\* C27: a heartbeat is written only while the connection is
\* AUTHENTICATED, so never before the registration reply; two consecutive
\* heartbeats on a connection are at least HEARTBEAT_SECONDS apart; and
\* when lws_service returns on an authenticated connection
\* HEARTBEAT_SECONDS or more after the last heartbeat, one is written.
C27_HeartbeatSpacing ==
    /\ [](\A i \in 1..(Len(hb_log) - 1) :
             hb_log[i + 1] - hb_log[i] >= HEARTBEAT_SECONDS)
    /\ [][WritesHeartbeat =>
             /\ state = "AUTHENTICATED" /\ state' = "AUTHENTICATED"
             /\ authenticated
             /\ now - last_heartbeat >= HEARTBEAT_SECONDS
             /\ last_heartbeat' = now
             /\ hb_log' = Append(hb_log, now)]_vars
    /\ [][(/\ w_pc = "in_service" /\ w_pc' = "service_loop"
           /\ state = "AUTHENTICATED"
           /\ now - last_heartbeat >= HEARTBEAT_SECONDS)
             => WritesHeartbeat]_vars

\* Two heartbeats were written on one connection, the second exactly
\* HEARTBEAT_SECONDS after the first.
C27_Witness ==
    /\ Len(hb_log) >= 2
    /\ hb_log[2] - hb_log[1] = HEARTBEAT_SECONDS
    /\ state = "AUTHENTICATED"

(* ------------------ C28: who touches the connection -------------------- *)

\* Producer p's step reads or uses the connection handle: the direct
\* path's ws_send_message and lws_callback_on_writable.
TouchesHandle(p) == p_pc[p] = "send" /\ p_pc'[p] = "idle"

\* C28: a producer's send_exception call touches only the queue and its
\* snapshot of the state: no step of a producer uses the connection
\* handle, writes a frame or requests a writeable callback.
C28_OnlyWorkerTouchesConnection ==
    [][\A p \in Producers :
          /\ ~TouchesHandle(p)
          /\ (p_pc'[p] # p_pc[p]) =>
                <<wire, writable_req, wsi>>' = <<wire, writable_req, wsi>>]_vars

(* ------------------- C29: how an entry leaves the queue ---------------- *)

\* The head entry is no longer in the queue after the step.
HeadLeaves ==
    /\ queue.entries # <<>>
    /\ \A i \in 1..Len(queue'.entries) :
          queue'.entries[i] # Head(queue.entries)

\* The step writes the head entry to the connection.
HeadWritten ==
    /\ Len(wire') = Len(wire) + 1
    /\ Last(wire').json = Head(queue.entries)

\* The step is a push on a full queue, which evicts the head.
HeadEvicted ==
    /\ queue.count >= queue.max_size
    /\ \E p \in Producers : p_pc[p] = "push" /\ Appended(p)

\* C29: an entry leaves the queue only when it is written to the
\* connection or evicted by overflow; an entry popped for a write that
\* fails is not lost.
C29_LeavesOnlyWrittenOrEvicted ==
    [][HeadLeaves => (HeadWritten \/ HeadEvicted)]_vars

(* --------------------- C30: the queue is emptied ----------------------- *)

\* The connection is AUTHENTICATED and open, the worker is in its service
\* loop with the drain loop behind it, no send_exception call is under
\* way, records are queued, and no writeable callback has been requested.
\* Short of a later send_exception call or another "registered" frame, no
\* step of the worker pops the queue from here.
Stranded ==
    /\ state = "AUTHENTICATED" /\ authenticated
    /\ link = "open" /\ wsi # NULL
    /\ w_pc \in {"service_loop", "in_service"}
    /\ \A p \in Producers : p_pc[p] = "idle"
    /\ queue.count > 0
    /\ ~writable_req

\* C30: while the connection stays AUTHENTICATED and writable every
\* queued record is eventually popped and written, also one enqueued on a
\* snapshot taken just before authentication: records are never left
\* queued on an authenticated connection with nothing set to pop them.
C30_QueuedIsEventuallyWritten == ~Stranded

(* -------------------- C31: the worker stops on shutdown ---------------- *)

\* The step starts a connection attempt: a context is created.
ConnectAttempt == w_pc = "loop" /\ w_pc' \in {"service_loop", "cb_register"}

\* C31: once shutdown has set the stop flag and waits in pthread_join,
\* the worker returns, from wherever it is, and the join and shutdown
\* return; the worker starts no connection attempt while the flag is set.
C31_ShutdownStopsWorker ==
    /\ (host_pc = "join") ~> (w_pc = "returned")
    /\ (host_pc = "join") ~> (host_pc = "idle" /\ ~conn_exists)
    /\ [][should_stop => ~ConnectAttempt]_vars

\* Shutdown waits in pthread_join while the worker is inside lws_service
\* on an authenticated connection.
C31_Witness ==
    /\ host_pc = "join"
    /\ should_stop
    /\ w_pc = "in_service"
    /\ state = "AUTHENTICATED"

(* ----------------------------- C32: parse_url -------------------------- *)

\* The parts the configured URL was written from.
PartsOf(url) == CHOOSE c \in UrlParts : Render(c) = url

\* The worker has been through parse_url.
Parsed == conn_exists /\ w_pc \notin {"none", "parse_url"}

\* What parse_url is to give for the parts c of an accepted URL.
ExpectedTarget(c) ==
    [host |-> c.host,
     port |-> IF c.port = <<"7", "4", "4", "3">> THEN 7443
              ELSE IF c.port = <<"8", "0">> THEN 80
              ELSE IF c.scheme = <<"w", "s", "s">> THEN 443 ELSE 80,
     path |-> IF c.path # NULLSTR THEN c.path ELSE <<"/">>,
     use_ssl |-> c.scheme = <<"w", "s", "s">>]

\* The worker has returned without any connection attempt.
NoAttemptAtAll ==
    /\ w_pc = "returned"
    /\ target = NoTarget
    /\ reconnect_attempts = 0
    /\ lws_ctx = NULL /\ link = "none" /\ wsi = NULL

\* The scheme is ws or wss.
KnownScheme(c) == c.scheme \in {<<"w", "s">>, <<"w", "s", "s">>}

\* The worker goes on to its connect loop with the locals t.
GoesOnWith(t) ==
    /\ target = t
    /\ w_pc # "returned" \/ reconnect_attempts > 0

\* C32 as stated: parse_url accepts exactly the schemes ws:// (TLS off,
\* port 80) and wss:// (TLS on, port 443); an explicit port overrides the
\* default, an explicit path is kept and otherwise the path is "/"; for
\* any other scheme it reports an error and the worker makes no
\* connection attempt.
C32_ParseUrl ==
    Parsed =>
       LET c == PartsOf(config.backend_url) IN
          IF KnownScheme(c)
          THEN GoesOnWith(ExpectedTarget(c))
          ELSE NoAttemptAtAll

\* C32 amended: the same for a host shorter than 256 bytes and a path
\* shorter than 512 bytes; a longer path is cut to its first 511 bytes,
\* and a longer host is an error like an unknown scheme.
C32_ParseUrlWithinLimits ==
    Parsed =>
       LET c == PartsOf(config.backend_url) IN
          IF KnownScheme(c) /\ Len(c.host) < HOST_SIZE
          THEN GoesOnWith([ExpectedTarget(c) EXCEPT
                              !.path = Prefix(@, PATH_SIZE - 1)])
          ELSE NoAttemptAtAll

\* The worker parsed a wss URL with an explicit port and a path of 512
\* bytes, and kept 511 of them.
C32_Witness ==
    /\ Parsed
    /\ Len(PartsOf(config.backend_url).path) = PATH_SIZE
    /\ target.use_ssl
    /\ target.port = 7443
    /\ Len(target.path) = PATH_SIZE - 1

(* --------------- C33: shutdown without installed handlers -------------- *)

\* The step is the first part of aivory_shutdown on an initialized agent,
\* which calls aivory_uninstall_signal_handlers.
ShutdownUninstalls ==
    /\ host_pc = "idle" /\ initialized
    /\ host_pc' = "join" \/ HostCallReturns("shutdown")

\* C33: a shutdown of an agent initialized with capture_signals = false
\* leaves the handler of every signal as the host had it: shutdown
\* restores handlers only when init installed them.
C33_ShutdownKeepsHostHandlers ==
    [][(ShutdownUninstalls /\ ~config.capture_signals)
          => disposition' = disposition]_vars

(* ------------------ C34: capture_error and shutdown -------------------- *)

\* C34: a producer that is inside aivory_ws_send_exception, past the test
\* of g_connection, still has the connection object: shutdown does not
\* destroy the object, its mutex and its queue under a call that is under
\* way, so the call never uses them after the teardown.
C34_NoUseAfterTeardown ==
    \A p \in Producers : p_pc[p] \in {"send", "push"} => conn_exists

(* ------------------- C35: the connection's fields agree ---------------- *)

\* The worker has left ws_thread_func with the transport context destroyed.
WorkerGone == conn_exists /\ w_pc = "returned" /\ lws_ctx = NULL

\* C35: while the connection object exists, authenticated is true exactly
\* when state is AUTHENTICATED, and wsi is non-null exactly when state is
\* CONNECTED or AUTHENTICATED; the fields change together under the
\* mutex, and the relation still holds once the worker has returned (after
\* a stop, a rejected authentication or too many attempts) and destroyed
\* the lws context.
C35_FieldsAgree ==
    conn_exists =>
        /\ authenticated <=> state = "AUTHENTICATED"
        /\ wsi # NULL <=> state \in {"CONNECTED", "AUTHENTICATED"}

\* The worker has returned on a stop while authenticated, and also the
\* fields are as the last callback left them.
C35_Witness ==
    /\ WorkerGone
    /\ should_stop
    /\ state \in {"CONNECTED", "AUTHENTICATED"}

====
